---- MODULE Spec2Model ----
(***************************************************************************)
(* State-machine model of the xWRL6432 ADC reader: the DCA1000 frame       *)
(* reassembly engine (adc_reader/utils/adc.py), the radar CLI client       *)
(* (utils/radar_cli.py) and the acquisition orchestrator                   *)
(* (xwrl6432_adc_reader.py).                                               *)
(***************************************************************************)
EXTENDS Integers, Sequences, FiniteSets, TLC

\* ---------------------------------------------------------------- bounds
MaxFrameLen == 2      \* largest uint16_in_frame explored by the reassembly specs
NumFrameIds == 2      \* frame ids 0 .. NumFrameIds-1 appear on the wire
MaxPayload  == 3      \* longest payload (uint16 words) of one datagram
MaxTime     == 3      \* the clock runs from 0 to MaxTime ticks
MaxPeriod   == 1      \* frame_period is 1 .. MaxPeriod ticks
MaxAbandoned == 2     \* start_acquisition is explored until it has let go of
                      \* MaxAbandoned RadarCLI objects
MaxCfgLines == 2      \* number of lines of the radar configuration file

\* uint16 payload words, abstracted to two values
Samples == {0, 1}

\* np.empty(): the cell holds no defined value; the code reads a cell only
\* after filled[cell] was set, so an unwritten cell is kept as this marker.
Uninit == -1

\* self.cli = None, self.dca = None
None == "None"

VARIABLES
    uint16_in_frame,   \* DCA1000.uint16_in_frame
    frame_period,      \* DCA1000.frame_period_seconds, in clock ticks
    frame_buff,        \* DCA1000.frame_buff: frame_id -> PartialFrame
    now,               \* time.time(), in clock ticks
    pc,                \* position of the thread that executes DCA1000.read():
                       \*   a direct caller, or XWRL6432AdcReader.run()
    pkt,               \* read(): (byte_count, packet_data) of the datagram in hand
    ret,               \* result of the last _place_data_packet_in_frame_buffer:
                       \*   <<>> for (None, None), else <<[frame_id, data]>>
    dropped_frames,    \* read(): result of the last _delete_incomplete_frames
    completions,       \* history: every frame the last place call completed, in order
    chunks,            \* history: the chunks the last place call wrote, in order
    sent,              \* history: value delivered for each absolute sample offset
    clean,             \* history: no sample offset was delivered twice so far
    evicted,           \* history: frame_id -> first_seen of the PartialFrame evicted
                       \*   last under that id (Uninit: none so far)
    radar_cfg,         \* XWRL6432AdcReader: num_chirp_loops, num_tx_ant, num_rx_ant,
                       \*   num_adc_samples
    cli,               \* XWRL6432AdcReader.cli: None or the RadarCLI
    dca,               \* XWRL6432AdcReader.dca: None or the DCA1000
    running,           \* XWRL6432AdcReader._running
    thread,            \* threading.Thread state: "new" until start() succeeded
    ser_open,          \* self.cli.ser is set and open
    sockets_open,      \* the sockets of self.dca are open
    out_queue,         \* XWRL6432AdcReader.out_queue
    events,            \* history: what the latest API call sent to the hardware
    call,              \* history: the latest API call and how it ended
    observed,          \* history: what callers of start_acquisition got back
    raw_frames,        \* history: the frames dca.read() returned to run() while
                       \*   _running was set
    abandoned,         \* the RadarCLI objects _init_hardware let go of with
                       \*   their port open and their listener running
    ser,               \* RadarCLI.ser: "Serial" or None
    is_open,           \* RadarCLI.ser.is_open
    monitor_running,   \* SerialMonitor.running
    monitor_alive,     \* the SerialMonitor thread has not left run()
    in_waiting,        \* the lines the peer sent that nobody has read yet
    last_received_data,\* RadarCLI.last_received_data
    cmd_pc,            \* where the thread calling the RadarCLI is
    op,                \* the RadarCLI method called and its arguments
    elapsed,           \* poll periods (0.1 s) since the command was written
    wake,              \* the time a time.sleep() of the caller ends
    end_time,          \* _send_and_listen: end_time
    returned,          \* what _send_and_listen returned
    outcome,           \* how the latest RadarCLI method call ended
    written,           \* history: what the method call wrote to the port
    answer,            \* history: the lines the peer sent for the command and
                       \*   when (at -1: left over from an earlier command)
    applied,           \* the function called last, its arguments and what
                       \*   came of it
    input_queue,       \* ADCRecorder.input_queue
    num_frames_to_record, \* ADCRecorder.num_frames_to_record
    recorded_frames,   \* ADCRecorder.recorded_frames
    frames_recorded_count, \* ADCRecorder._frames_recorded_count
    rec_running,       \* ADCRecorder._running
    rec_event,         \* ADCRecorder.recording_task_complete_event is set
    rec_thread,        \* the recorder thread: "none" before the constructor,
                       \*   then "new", "alive" or "ended"
    rec_pc,            \* where the recorder thread is in run()
    rec_local,         \* run(): the frame taken from the queue, and the count
                       \*   read by the += in progress
    app_pc,            \* where the application is in start_recording()
    app_ret,           \* what the latest ADCRecorder method returned
    produced           \* history: how many frames were put on input_queue

reasm_vars == <<uint16_in_frame, frame_period, frame_buff, now, pkt, ret,
                dropped_frames, completions, chunks, sent, clean, evicted>>

orch_vars == <<radar_cfg, cli, dca, running, thread, ser_open, sockets_open,
               out_queue, events, call, observed, raw_frames, abandoned>>

cli_vars == <<ser, is_open, monitor_running, monitor_alive, in_waiting,
              last_received_data, cmd_pc, op, elapsed, wake, end_time, returned,
              outcome, written, answer>>

fn_vars == <<applied>>

rec_vars == <<input_queue, num_frames_to_record, recorded_frames,
              frames_recorded_count, rec_running, rec_event, rec_thread, rec_pc,
              rec_local, app_pc, app_ret, produced>>

vars == <<reasm_vars, pc, orch_vars, cli_vars, fn_vars, rec_vars>>

\* no function has been called
FnInit == applied = [name |-> "none", arg |-> <<>>, out |-> <<>>]

\* the most frames an ADCRecorder is asked to record
MaxRecord == 2

\* no ADCRecorder has been constructed
RecInit ==
    /\ input_queue = <<>>
    /\ num_frames_to_record = 0
    /\ recorded_frames = <<>>
    /\ frames_recorded_count = 0
    /\ rec_running = FALSE
    /\ rec_event = FALSE
    /\ rec_thread = "none"
    /\ rec_pc = "new"
    /\ rec_local = [frame |-> 0, count |-> 0]
    /\ app_pc = "idle"
    /\ app_ret = "none"
    /\ produced = 0

\* RadarCLI.__init__ returned: the port is open, the monitor thread runs,
\* nothing was sent
ClientInit ==
    /\ ser = "Serial"
    /\ is_open = TRUE
    /\ monitor_running = TRUE
    /\ monitor_alive = TRUE
    /\ in_waiting = <<>>
    /\ last_received_data = None
    /\ cmd_pc = "idle"
    /\ op = [name |-> "none", file |-> <<>>, i |-> 0, timeout |-> 0]
    /\ elapsed = 0
    /\ wake = 0
    /\ end_time = 0
    /\ returned = FALSE
    /\ outcome = "none"
    /\ written = <<>>
    /\ answer = <<>>

\* ------------------------------------------------------------ reassembly
FrameIds == 0 .. (NumFrameIds - 1)

NoPkt == [byte_count |-> 0, payload |-> <<>>]

\* the datagrams the capture card can send for a frame size F: a run of
\* 1..MaxPayload samples starting at an absolute sample offset of the stream
Packets(F) ==
    { [byte_count |-> 2 * o, payload |-> p] :
        o \in 0 .. (NumFrameIds * F - 1),
        p \in UNION { [1..n -> Samples] : n \in 1..MaxPayload } }

InStream(F, p) == (p.byte_count \div 2) + Len(p.payload) <= NumFrameIds * F

\* timeout_incomplete_frames = self.frame_period_seconds * 2
TimeoutIncompleteFrames == frame_period * 2

\* a chunk that ignores the end of the frame
ChunkSizeNoMin(remaining, n_uint16_to_frame_end) == remaining

\* min(remaining, n_uint16_to_frame_end)
ChunkSize(remaining, n_uint16_to_frame_end) ==
    IF remaining < n_uint16_to_frame_end THEN remaining ELSE n_uint16_to_frame_end

\* the default of frame_buff.setdefault(frame_id, {...})
NewPartialFrame ==
    [ data       |-> [i \in 1..uint16_in_frame |-> Uninit],
      filled     |-> [i \in 1..uint16_in_frame |-> FALSE],
      first_seen |-> now ]

\* frame_buff.setdefault(frame_id, default): insert only when absent
SetDefault(buff, frame_id) ==
    IF frame_id \in DOMAIN buff
    THEN buff
    ELSE [k \in DOMAIN buff \cup {frame_id} |->
            IF k = frame_id THEN NewPartialFrame ELSE buff[k]]

\* a write that also stamps the PartialFrame with the time of the write
WriteChunkStamps(buf, start, chunk_size, payload, idx) ==
    [ buf EXCEPT
        !.data   = [i \in 1..uint16_in_frame |->
                      IF start < i /\ i <= start + chunk_size
                      THEN payload[idx + (i - start)] ELSE @[i]],
        !.filled = [i \in 1..uint16_in_frame |->
                      IF start < i /\ i <= start + chunk_size THEN TRUE ELSE @[i]],
        !.first_seen = now ]

\* buf['data'][start:end] = payload[idx:idx+chunk_size]; buf['filled'][start:end] = True
\* (start, idx are the 0-based positions of the code; sequences are 1-based)
WriteChunk(buf, start, chunk_size, payload, idx) ==
    [ buf EXCEPT
        !.data   = [i \in 1..uint16_in_frame |->
                      IF start < i /\ i <= start + chunk_size
                      THEN payload[idx + (i - start)] ELSE @[i]],
        !.filled = [i \in 1..uint16_in_frame |->
                      IF start < i /\ i <= start + chunk_size THEN TRUE ELSE @[i]] ]

\* buf['filled'].any()
AnyFilled(buf) == \E i \in 1..uint16_in_frame : buf.filled[i]

\* buf['filled'].all()
AllFilled(buf) == \A i \in 1..uint16_in_frame : buf.filled[i]

\* a completion that leaves the frame in the map
DelFrameKeeps(buff, frame_id) == buff

\* del self.frame_buff[frame_id]
DelFrame(buff, frame_id) == [k \in DOMAIN buff \ {frame_id} |-> buff[k]]

\* a completion that keeps the first completed frame of the call
CompletedKeepFirst(st, frame_id, buf) ==
    IF st.completed # <<>> THEN st.completed
    ELSE <<[frame_id |-> frame_id, data |-> buf.data]>>

\* the tuple a completed frame is recorded as: completed = (frame_id, data.copy())
Completed(st, frame_id, buf) == <<[frame_id |-> frame_id, data |-> buf.data]>>

\* one iteration of the while loop of _place_data_packet_in_frame_buffer
PlaceChunk(st, payload) ==
    LET frame_id                == st.offset \div uint16_in_frame
        packet_num_within_frame == st.offset % uint16_in_frame
        n_uint16_to_frame_end   == uint16_in_frame - packet_num_within_frame
        chunk_size              == ChunkSize(st.remaining, n_uint16_to_frame_end)
        buff1                   == SetDefault(st.buff, frame_id)
        buf                     == WriteChunk(buff1[frame_id], packet_num_within_frame,
                                              chunk_size, payload, st.idx)
        done                    == AllFilled(buf)
    IN  [ buff        |-> IF done THEN DelFrame(buff1, frame_id)
                                  ELSE [buff1 EXCEPT ![frame_id] = buf],
          completed   |-> IF done THEN Completed(st, frame_id, buf) ELSE st.completed,
          offset      |-> st.offset + chunk_size,
          idx         |-> st.idx + chunk_size,
          remaining   |-> st.remaining - chunk_size,
          completions |-> IF done
                          THEN Append(st.completions,
                                      [frame_id |-> frame_id, data |-> buf.data,
                                       first_seen |-> buf.first_seen, done_at |-> now])
                          ELSE st.completions,
          chunks      |-> Append(st.chunks,
                                 [frame_id |-> frame_id, start |-> packet_num_within_frame,
                                  idx |-> st.idx, size |-> chunk_size]) ]

\* while remaining > 0: ...
RECURSIVE DrainPacket(_, _)
DrainPacket(st, payload) ==
    IF st.remaining > 0 THEN DrainPacket(PlaceChunk(st, payload), payload) ELSE st

\* _place_data_packet_in_frame_buffer(byte_count, payload)
PlaceDataPacketInFrameBuffer(buff, byte_count, payload) ==
    DrainPacket([ buff        |-> buff,
                  completed   |-> <<>>,
                  offset      |-> byte_count \div 2,
                  idx         |-> 0,
                  remaining   |-> Len(payload),
                  completions |-> <<>>,
                  chunks      |-> <<>> ], payload)

\* a scan that lets a PartialFrame live one tick longer
ToDeleteLate(buff, timeout_seconds) ==
    { frame_number \in DOMAIN buff :
        now - buff[frame_number].first_seen > timeout_seconds + 1 }

\* a scan that also takes a PartialFrame whose age equals the timeout
ToDeleteInclusive(buff, timeout_seconds) ==
    { frame_number \in DOMAIN buff :
        now - buff[frame_number].first_seen >= timeout_seconds }

\* to_delete of _delete_incomplete_frames(timeout_seconds)
ToDelete(buff, timeout_seconds) ==
    { frame_number \in DOMAIN buff : now - buff[frame_number].first_seen > timeout_seconds }

\* an eviction pass that deletes nothing
DeleteNothing(buff, timeout_seconds) == buff

\* _delete_incomplete_frames: the map after the deletions
DeleteIncompleteFrames(buff, timeout_seconds) ==
    [k \in DOMAIN buff \ ToDelete(buff, timeout_seconds) |-> buff[k]]

\* --------------------------------------------------------------- history
\* the longest frame any specification configures
MaxWords == IF MaxFrameLen > 4 THEN MaxFrameLen ELSE 4

NothingSent == [o \in 0 .. (NumFrameIds * MaxWords - 1) |-> Uninit]

PktRange(p) == { (p.byte_count \div 2) + i - 1 : i \in 1..Len(p.payload) }

\* the delivery record after packet p: once an offset is delivered twice the
\* record is dropped (clean = FALSE) and stays dropped
SentAfter(p) ==
    IF clean /\ \A o \in PktRange(p) : sent[o] = Uninit
    THEN [o \in DOMAIN sent |->
            IF o \in PktRange(p) THEN p.payload[o - (p.byte_count \div 2) + 1] ELSE sent[o]]
    ELSE NothingSent

CleanAfter(p) == clean /\ \A o \in PktRange(p) : sent[o] = Uninit

\* --------------------------------------------------------------- decoder
\* bit b of the uint16 word w: (w >> b) & 1
Bit(w, b) == (w \div (2 ^ b)) % 2

\* the 3-bit groups taken for S3, S2, S1, S0 instead of S0, S1, S2, S3
ReversedShifts == <<0, 3, 6, 9>>

\* input_word_group_shifts = [9, 6, 3, 0]
InputWordGroupShifts == <<9, 6, 3, 0>>

\* a sample that takes its bits word by word: bit 3*j + k from bit k of the
\* 3-bit group of W[j]
RECURSIVE SampleBitsWordMajor(_, _, _)
SampleBitsWordMajor(W, shift, p) ==
    IF p < 0 THEN 0
    ELSE Bit(W[(p \div 3) + 1], shift + (p % 3)) * (2 ^ p)
           + SampleBitsWordMajor(W, shift, p - 1)

\* the bits 0..p of one output sample: bit_pos_in_s = k*4 + j takes bit k of
\* the 3-bit group (W[j] >> shift) & 0x7
RECURSIVE SampleBits(_, _, _)
SampleBits(W, shift, p) ==
    IF p < 0 THEN 0
    ELSE Bit(W[(p % 4) + 1], shift + (p \div 4)) * (2 ^ p) + SampleBits(W, shift, p - 1)

\* an assertion that only asks for a multiple of 4
RaisesOffMultiple(raw_data) == Len(raw_data) % 4 # 0

\* _unswizzle_rdif_data: the assertion on the length fails
UnswizzleRaises(raw_data) == ~(Len(raw_data) > 0 /\ Len(raw_data) % 4 = 0)

\* _unswizzle_rdif_data: [S0, S1, S2, S3] for every block [W0, W1, W2, W3]
UnswizzleRdifData(raw_data) ==
    [i \in 1..Len(raw_data) |->
        LET block == (i - 1) \div 4
            s_idx == ((i - 1) % 4) + 1
            W     == [j \in 1..4 |-> raw_data[4 * block + j]]
        IN  SampleBits(W, InputWordGroupShifts[s_idx], 11)]

\* a conversion that wraps from 2047 on
ToSignedFrom2047(v) == IF v >= 2047 THEN v - 4096 ELSE v

\* data[data > max_signed_val] -= 2**12
ToSigned(v) == IF v > 2047 THEN v - 4096 ELSE v

\* _interpret_raw_data raises: the assertion, or np.reshape on a wrong size
InterpretRaises(raw_data, cfg) ==
    \/ UnswizzleRaises(raw_data)
    \/ Len(raw_data) # cfg.num_chirp_loops * cfg.num_tx_ant
                         * cfg.num_adc_samples * cfg.num_rx_ant

\* a decoder without the transpose: channel = rx*num_tx + tx
InterpretRxMajor(raw_data, cfg) ==
    LET data == UnswizzleRdifData(raw_data)
    IN  [l \in 1..cfg.num_chirp_loops |->
          [c \in 1..(cfg.num_tx_ant * cfg.num_rx_ant) |->
            [s \in 1..cfg.num_adc_samples |->
               LET rx == (c - 1) \div cfg.num_tx_ant
                   tx == (c - 1) % cfg.num_tx_ant
               IN  ToSigned(data[ ((((l - 1) * cfg.num_tx_ant + tx) * cfg.num_adc_samples
                                     + (s - 1)) * cfg.num_rx_ant) + rx + 1 ])]]]

\* _interpret_raw_data: [chirp_loop][channel][adc_sample], channel = tx*num_rx + rx
InterpretRawData(raw_data, cfg) ==
    LET data == UnswizzleRdifData(raw_data)
    IN  [l \in 1..cfg.num_chirp_loops |->
          [c \in 1..(cfg.num_tx_ant * cfg.num_rx_ant) |->
            [s \in 1..cfg.num_adc_samples |->
               LET tx == (c - 1) \div cfg.num_rx_ant
                   rx == (c - 1) % cfg.num_rx_ant
               IN  ToSigned(data[ ((((l - 1) * cfg.num_tx_ant + tx) * cfg.num_adc_samples
                                     + (s - 1)) * cfg.num_rx_ant) + rx + 1 ])]]]

\* bool(ndarray) raises ValueError for an array of more than one element
TruthRaises(a) == Len(a) > 1

\* bool(ndarray) of an array of at most one element
Truth(a) == Len(a) = 1 /\ a[1] # 0

\* ---------------------------------------------------------- orchestrator
\* the frame sizes of the radar configurations the orchestrator is built with
AdcSampleCounts == {2, 4}

Configs ==
    { [num_chirp_loops |-> 1, num_tx_ant |-> 1, num_rx_ant |-> 1, num_adc_samples |-> n] :
        n \in AdcSampleCounts }

\* DCA1000.__init__: self.bytes_in_frame
BytesInFrame(cfg) ==
    cfg.num_chirp_loops * cfg.num_rx_ant * cfg.num_tx_ant * 1 * cfg.num_adc_samples * 2

\* the lines of a configuration file: a command, an empty line, a % comment
LineKinds == {"cmd", "blank", "comment"}

CfgFiles == [1..MaxCfgLines -> LineKinds]

\* one entry of the record of what an API call did: for a configuration
\* command n is its position among the commands written and ack the result of
\* _send_and_listen; for sensorStart ack is that result too; for the two
\* commands of stop_acquisition ack is FALSE when the attempt raised; every
\* other entry has n = 0 and ack = TRUE (a reply to it is not looked at)
Ev(name, n, ack) == [ev |-> name, n |-> n, ack |-> ack]

\* send_config: if not line or line.startswith('%'): continue
Skipped(kind) == kind \in {"blank", "comment"}

\* a client that carries on after an unacknowledged line
NeverAborts(success) == FALSE

\* send_config: if not success: raise Exception(...)
ConfigAborts(success) == ~success

\* RadarCLI.send_config from line i on, n commands written so far: the
\* commands written, and whether it raised
RECURSIVE SendConfig(_, _, _, _)
SendConfig(file, acks, i, n) ==
    IF i > Len(file) THEN [events |-> <<>>, raised |-> FALSE]
    ELSE IF Skipped(file[i]) THEN SendConfig(file, acks, i + 1, n)
    ELSE IF ConfigAborts(acks[i])
         THEN [events |-> <<Ev("cfg", n + 1, acks[i])>>, raised |-> TRUE]
         ELSE LET rest == SendConfig(file, acks, i + 1, n + 1)
              IN  [events |-> <<Ev("cfg", n + 1, acks[i])>> \o rest.events,
                   raised |-> rest.raised]

\* the number of lines of the file that send_config does not skip
Commands(file) == Cardinality({ i \in 1..Len(file) : ~Skipped(file[i]) })

\* DCA1000.reset(); DCA1000.configure(): the five commands
DcaSetup ==
    << Ev("RESET_FPGA", 0, TRUE),
       Ev("SYSTEM_CONNECT", 0, TRUE),
       Ev("READ_FPGA_VERSION", 0, TRUE),
       Ev("CONFIG_FPGA_GEN", 0, TRUE),
       Ev("CONFIG_PACKET_DATA", 0, TRUE) >>

\* the part of the orchestrator an API call reads and writes
Orch == [cli |-> cli, dca |-> dca, running |-> running, thread |-> thread,
         ser_open |-> ser_open, sockets_open |-> sockets_open,
         abandoned |-> abandoned]

\* self.cli = RadarCLI(...) over an earlier RadarCLI, and self.cli = None in
\* the except clause: how many RadarCLI objects with an open port the call
\* lets go of without close() (the listener thread keeps the port and the
\* object alive); opened_now - the call opened a port itself
Dropped(o, opened_now) ==
    (IF o.cli # None /\ o.ser_open THEN 1 ELSE 0) + (IF opened_now THEN 1 ELSE 0)

\* _init_hardware(); in: port_ok - serial.Serial() opens the port,
\* file/acks - the configuration file and the radar's answer to each line,
\* dca_ok - DCA1000() binds its sockets
InitHardware(o, port_ok, file, acks, dca_ok) ==
    IF o.cli # None /\ o.dca # None
    THEN [o |-> o, events |-> <<>>, raised |-> FALSE]
    ELSE IF ~port_ok
    THEN [o |-> [o EXCEPT !.cli = None, !.ser_open = FALSE,
                          !.abandoned = @ + Dropped(o, FALSE)],
          events |-> <<>>, raised |-> TRUE]
    ELSE LET sc == SendConfig(file, acks, 1, 0)
             ev1 == <<Ev("open_serial", 0, TRUE)>> \o sc.events
         IN  IF sc.raised
             THEN [o |-> [o EXCEPT !.cli = None, !.ser_open = FALSE,
                                   !.abandoned = @ + Dropped(o, TRUE)],
                   events |-> ev1, raised |-> TRUE]
             ELSE IF ~dca_ok
             THEN [o |-> [o EXCEPT !.cli = "RadarCLI", !.ser_open = TRUE,
                                   !.dca = None, !.sockets_open = FALSE,
                                   !.abandoned = @ + Dropped(o, FALSE)],
                   events |-> ev1, raised |-> TRUE]
             ELSE [o |-> [o EXCEPT !.cli = "RadarCLI", !.ser_open = TRUE,
                                   !.dca = "DCA1000", !.sockets_open = TRUE,
                                   !.abandoned = @ + Dropped(o, FALSE)],
                   events |-> ev1 \o <<Ev("open_sockets", 0, TRUE)>> \o DcaSetup,
                   raised |-> FALSE]

\* a start that wakes the sensor before the capture card records
SensorBeforeCard == <<"sensorStart", "RECORD_START">>

\* start_acquisition: self.dca.start_stream(); self.cli.send_start_cmd()
StartOrder == <<"RECORD_START", "sensorStart">>

\* one of the two start commands: [events, raised]; a command on a closed
\* socket or serial port raises
StartCommand(o, name, start_ack) ==
    IF name = "RECORD_START"
    THEN IF o.sockets_open
         THEN [events |-> <<Ev("RECORD_START", 0, TRUE)>>, raised |-> FALSE]
         ELSE [events |-> <<>>, raised |-> TRUE]
    ELSE IF o.ser_open
         THEN [events |-> <<Ev("sensorStart", 0, start_ack)>>, raised |-> FALSE]
         ELSE [events |-> <<>>, raised |-> TRUE]

\* a start() that launches run() again on every call
SuperStartAgain(o) ==
    [o |-> [o EXCEPT !.thread = "started"],
     events |-> <<Ev("thread_start", 0, TRUE)>>, launched |-> TRUE]

\* start_acquisition: super().start() - Thread.start() launches run() once and
\* raises RuntimeError on a thread that was started before
SuperStart(o) ==
    IF o.thread = "new"
    THEN [o |-> [o EXCEPT !.thread = "started"],
          events |-> <<Ev("thread_start", 0, TRUE)>>, launched |-> TRUE]
    ELSE [o |-> o, events |-> <<Ev("thread_start", 0, FALSE)>>, launched |-> FALSE]

\* start_acquisition: if self.cli is None or self.dca is None
NeedsInit(o) == o.cli = None \/ o.dca = None

\* a start_acquisition that lets the exception reach its caller
Reraised(exc) == exc

\* start_acquisition: except Exception as e: print(...) - whether an exception
\* raised inside the try block reaches the caller
Propagates(exc) == FALSE

\* start_acquisition(): the orchestrator afterwards, what was sent, whether
\* _init_hardware failed, whether run() was launched, and what the caller
\* gets: the value returned and whether an exception reached it
StartAcquisitionCall(o, port_ok, file, acks, dca_ok, start_ack) ==
    LET ih == IF NeedsInit(o)
              THEN InitHardware(o, port_ok, file, acks, dca_ok)
              ELSE [o |-> o, events |-> <<>>, raised |-> FALSE]
        o1 == ih.o
        done(o2, evs, failed, launched, exc) ==
            [o |-> o2, events |-> evs, init_failed |-> failed, launched |-> launched,
             ret |-> None, raised |-> Propagates(exc)]
    IN  IF ih.raised THEN done(o1, ih.events, TRUE, FALSE, TRUE)
        ELSE IF NeedsInit(o1) THEN done(o1, ih.events, TRUE, FALSE, FALSE)
        ELSE LET c1 == StartCommand(o1, StartOrder[1], start_ack)
                 c2 == StartCommand(o1, StartOrder[2], start_ack)
                 st == SuperStart([o1 EXCEPT !.running = TRUE])
             IN  IF c1.raised THEN done(o1, ih.events, FALSE, FALSE, TRUE)
                 ELSE IF c2.raised
                 THEN done(o1, ih.events \o c1.events, FALSE, FALSE, TRUE)
                 ELSE done(st.o, ih.events \o c1.events \o c2.events \o st.events,
                           FALSE, st.launched, ~st.launched)

\* a stop_acquisition with both commands inside one try block
StreamStopSkipped(sensor_raised) == ~sensor_raised

\* stop_acquisition: the try block of dca.stop_stream() is reached whatever
\* cli.send_stop_cmd() did
StreamStopReached(sensor_raised) == TRUE

\* stop_acquisition(): self._running = False; cli.send_stop_cmd() and
\* dca.stop_stream(), each inside its own try/except
\* (a command on a closed port or socket raises inside its try block)
StopAcquisitionCall(o) ==
    LET sensor_raised == o.cli # None /\ ~o.ser_open
    IN  [o |-> [o EXCEPT !.running = FALSE],
         events |-> (IF o.cli # None
                     THEN <<Ev("sensorStop", 0, o.ser_open)>> ELSE <<>>)
                    \o (IF o.dca # None /\ StreamStopReached(sensor_raised)
                        THEN <<Ev("RECORD_STOP", 0, o.sockets_open)>> ELSE <<>>),
         raised |-> FALSE]

\* close(): cli.close() sends sensorStop and closes the port it holds open;
\* dca.close() closes both sockets
CloseCall(o) ==
    [o |-> [o EXCEPT !.ser_open = FALSE, !.sockets_open = FALSE],
     events |-> (IF o.cli # None /\ o.ser_open
                 THEN <<Ev("sensorStop", 0, TRUE), Ev("close_serial", 0, TRUE)>>
                 ELSE <<>>)
                \o (IF o.dca # None THEN <<Ev("close_sockets", 0, TRUE)>> ELSE <<>>)]

\* --------------------------------------------------------------- actions
\* a DCA1000 in direct use: constructed, sockets bound, nothing received yet
ReasmInit ==
    /\ uint16_in_frame \in 1..MaxFrameLen
    /\ frame_period \in 1..MaxPeriod
    /\ frame_buff = << >>
    /\ now = 0
    /\ pc = "idle"
    /\ pkt = NoPkt
    /\ ret = <<>>
    /\ dropped_frames = {}
    /\ completions = <<>>
    /\ chunks = <<>>
    /\ sent = NothingSent
    /\ clean = TRUE
    /\ evicted = [k \in FrameIds |-> Uninit]
    /\ radar_cfg = [num_chirp_loops |-> 1, num_tx_ant |-> 1, num_rx_ant |-> 1,
                    num_adc_samples |-> uint16_in_frame]
    /\ cli = None
    /\ dca = "DCA1000"
    /\ running = FALSE
    /\ thread = "new"
    /\ ser_open = FALSE
    /\ sockets_open = TRUE
    /\ out_queue = <<>>
    /\ events = <<>>
    /\ call = [op |-> "none", commands |-> 0, init_failed |-> FALSE, launched |-> FALSE,
               ret |-> None, raised |-> FALSE]
    /\ observed = [failed |-> {}, started |-> {}]
    /\ raw_frames = <<>>
    /\ abandoned = 0
    /\ ClientInit
    /\ FnInit
    /\ RecInit

\* XWRL6432AdcReader.__init__: nothing opened, nothing running
OrchInit ==
    /\ radar_cfg \in Configs
    /\ uint16_in_frame = 0
    /\ frame_period \in 1..MaxPeriod
    /\ frame_buff = << >>
    /\ now = 0
    /\ pc = "idle"
    /\ pkt = NoPkt
    /\ ret = <<>>
    /\ dropped_frames = {}
    /\ completions = <<>>
    /\ chunks = <<>>
    /\ sent = NothingSent
    /\ clean = TRUE
    /\ evicted = [k \in FrameIds |-> Uninit]
    /\ cli = None
    /\ dca = None
    /\ running = FALSE
    /\ thread = "new"
    /\ ser_open = FALSE
    /\ sockets_open = FALSE
    /\ out_queue = <<>>
    /\ events = <<>>
    /\ call = [op |-> "none", commands |-> 0, init_failed |-> FALSE, launched |-> FALSE,
               ret |-> None, raised |-> FALSE]
    /\ observed = [failed |-> {}, started |-> {}]
    /\ raw_frames = <<>>
    /\ abandoned = 0
    /\ ClientInit
    /\ FnInit
    /\ RecInit

\* time passes
Tick ==
    /\ now < MaxTime
    /\ now' = now + 1
    /\ UNCHANGED <<uint16_in_frame, frame_period, frame_buff, pc, pkt, ret,
                   dropped_frames, completions, chunks, sent, clean, evicted>>
    /\ UNCHANGED <<orch_vars, cli_vars, fn_vars, rec_vars>>

\* a direct caller enters DCA1000.read(), also after a read that raised
CallRead ==
    /\ pc \in {"idle", "returned", "raised"}
    /\ pc' = "recv"
    /\ UNCHANGED reasm_vars
    /\ UNCHANGED <<orch_vars, cli_vars, fn_vars, rec_vars>>

\* read(): packet_num, byte_count, packet_data = self._read_data_packet(),
\* for a datagram of a payload length in lens that starts at a multiple of
\* align; with uniform, the payload repeats one word
Recv(lens, align, uniform) ==
    /\ pc = "recv"
    /\ sockets_open
    /\ \E p \in Packets(uint16_in_frame) :
         /\ InStream(uint16_in_frame, p)
         /\ Len(p.payload) \in lens
         /\ (p.byte_count \div 2) % align = 0
         /\ uniform => \A i \in 1..Len(p.payload) : p.payload[i] = p.payload[1]
         /\ pkt' = p
    /\ pc' = "place"
    /\ ret' = <<>>
    /\ completions' = <<>>
    /\ chunks' = <<>>
    /\ UNCHANGED <<uint16_in_frame, frame_period, frame_buff, now,
                   dropped_frames, sent, clean, evicted>>
    /\ UNCHANGED <<orch_vars, cli_vars, fn_vars, rec_vars>>

RecvPacket == Recv(1..MaxPayload, 1, FALSE)

\* the same step for a capture card that sends one word per datagram
RecvWord == Recv({1}, 1, FALSE)

\* the same step for a capture card that sends a frame in two datagrams, each
\* repeating one word
RecvHalfFrame == Recv({uint16_in_frame \div 2}, uint16_in_frame \div 2, TRUE)

\* read(): recvfrom raises socket.timeout, or OSError on a closed socket, or
\* the datagram is malformed: struct.unpack raises on a header shorter than 10
\* bytes, np.frombuffer on a payload of an odd number of bytes
RecvFails ==
    /\ pc = "recv"
    /\ pc' = "raised"
    /\ UNCHANGED reasm_vars
    /\ UNCHANGED <<orch_vars, cli_vars, fn_vars, rec_vars>>

\* read(): frame_num, frame_data = self._place_data_packet_in_frame_buffer(...)
PlacePacket ==
    /\ pc = "place"
    /\ LET r == PlaceDataPacketInFrameBuffer(frame_buff, pkt.byte_count, pkt.payload)
       IN  /\ frame_buff' = r.buff
           /\ ret' = r.completed
           /\ completions' = r.completions
           /\ chunks' = r.chunks
           /\ pc' = IF r.completed # <<>> THEN "evict" ELSE "recv"
    /\ sent' = SentAfter(pkt)
    /\ clean' = CleanAfter(pkt)
    /\ pkt' = NoPkt
    /\ UNCHANGED <<uint16_in_frame, frame_period, now, dropped_frames, evicted>>
    /\ UNCHANGED <<orch_vars, cli_vars, fn_vars, rec_vars>>

\* read(): if frame_data is not None: dropped_frames = _delete_incomplete_frames(...);
\*         return frame_data
EvictAndReturn ==
    /\ pc = "evict"
    /\ frame_buff' = DeleteIncompleteFrames(frame_buff, TimeoutIncompleteFrames)
    /\ dropped_frames' = ToDelete(frame_buff, TimeoutIncompleteFrames)
    /\ evicted' = [k \in FrameIds |->
                      IF k \in ToDelete(frame_buff, TimeoutIncompleteFrames)
                      THEN frame_buff[k].first_seen ELSE evicted[k]]
    /\ pc' = "returned"
    /\ UNCHANGED <<uint16_in_frame, frame_period, now, pkt, ret, completions,
                   chunks, sent, clean>>
    /\ UNCHANGED <<orch_vars, cli_vars, fn_vars, rec_vars>>

\* the orchestrator fields an API call leaves behind
SetOrch(o) ==
    /\ cli' = o.cli
    /\ dca' = o.dca
    /\ running' = o.running
    /\ thread' = o.thread
    /\ ser_open' = o.ser_open
    /\ sockets_open' = o.sockets_open
    /\ abandoned' = o.abandoned

\* what the environment answers to one start_acquisition(): the inputs the
\* call does not read (the file and its acknowledgements when the hardware is
\* initialised already or the port does not open) are fixed to one value
StartInputs ==
    LET all_cmd   == [n \in 1..MaxCfgLines |-> "cmd"]
        all_acked == [n \in 1..MaxCfgLines |-> TRUE]
    IN  IF ~NeedsInit(Orch)
        THEN { [port_ok |-> TRUE, dca_ok |-> TRUE, start_ack |-> a,
                file |-> all_cmd, acks |-> all_acked] : a \in BOOLEAN }
        ELSE { [port_ok |-> FALSE, dca_ok |-> TRUE, start_ack |-> TRUE,
                file |-> all_cmd, acks |-> all_acked] }
             \cup [port_ok : {TRUE}, dca_ok : BOOLEAN, start_ack : BOOLEAN,
                   file : CfgFiles, acks : [1..MaxCfgLines -> BOOLEAN]]

\* the inputs of a start_acquisition() call on hardware that answers: the port
\* opens, every configuration line is a command and is acknowledged, the
\* capture card is constructed, sensorStart is acknowledged
OkInputs ==
    { [port_ok |-> TRUE, dca_ok |-> TRUE, start_ack |-> TRUE,
       file |-> [n \in 1..MaxCfgLines |-> "cmd"],
       acks |-> [n \in 1..MaxCfgLines |-> TRUE]] }

\* start_acquisition(), its inputs drawn from the set inputs
Start(inputs) ==
    \E i \in inputs :
        LET r == StartAcquisitionCall(Orch, i.port_ok, i.file, i.acks, i.dca_ok,
                                      i.start_ack)
        IN  /\ r.o.abandoned <= MaxAbandoned
            /\ SetOrch(r.o)
            /\ events' = r.events
            /\ call' = [op |-> "start",
                        commands |-> IF NeedsInit(Orch) /\ i.port_ok
                                     THEN Commands(i.file) ELSE 0,
                        init_failed |-> r.init_failed, launched |-> r.launched,
                        ret |-> r.ret, raised |-> r.raised]
            /\ observed' =
                 [failed  |-> IF r.init_failed
                              THEN observed.failed \cup {<<r.ret, r.raised>>}
                              ELSE observed.failed,
                  started |-> IF r.launched
                              THEN observed.started \cup {<<r.ret, r.raised>>}
                              ELSE observed.started]
            \* DCA1000.__init__: uint16_in_frame, frame_buff = {}
            /\ IF dca = None /\ r.o.dca # None
               THEN /\ uint16_in_frame' = BytesInFrame(radar_cfg) \div 2
                    /\ frame_buff' = << >>
               ELSE UNCHANGED <<uint16_in_frame, frame_buff>>
            \* Thread.start(): run() begins
            /\ pc' = IF r.launched THEN "run" ELSE pc
            /\ UNCHANGED <<frame_period, now, pkt, ret, dropped_frames, completions,
                           chunks, sent, clean, evicted>>
            /\ UNCHANGED <<radar_cfg, out_queue, raw_frames, cli_vars, fn_vars, rec_vars>>

\* start_acquisition()
StartAcquisition == Start(StartInputs)

\* start_acquisition() on hardware that answers
StartAcquisitionOk == Start(OkInputs)

\* stop_acquisition()
StopAcquisition ==
    LET r == StopAcquisitionCall(Orch)
    IN  /\ SetOrch(r.o)
        /\ events' = r.events
        /\ call' = [op |-> "stop", commands |-> 0, init_failed |-> FALSE,
                    launched |-> FALSE, ret |-> None, raised |-> r.raised]
        /\ UNCHANGED <<radar_cfg, out_queue, observed, raw_frames>>
        /\ UNCHANGED <<reasm_vars, pc, cli_vars, fn_vars, rec_vars>>

\* close()
Close ==
    LET r == CloseCall(Orch)
    IN  /\ SetOrch(r.o)
        /\ events' = r.events
        /\ call' = [op |-> "close", commands |-> 0, init_failed |-> FALSE,
                    launched |-> FALSE, ret |-> None, raised |-> FALSE]
        /\ UNCHANGED <<radar_cfg, out_queue, observed, raw_frames>>
        /\ UNCHANGED <<reasm_vars, pc, cli_vars, fn_vars, rec_vars>>

\* run(): if not self._running or self.dca is None or self.cli is None: return
RunEnter ==
    /\ pc = "run"
    /\ pc' = IF ~running \/ dca = None \/ cli = None THEN "done" ELSE "loop"
    /\ UNCHANGED reasm_vars
    /\ UNCHANGED <<orch_vars, cli_vars, fn_vars, rec_vars>>

\* a loop that does not look at the stop signal
LoopForever(flag) == TRUE

\* run(): while self._running
LoopContinues(flag) == flag

\* run(): while self._running: try: raw_frame = self.dca.read()
RunLoop ==
    /\ pc = "loop"
    /\ pc' = IF LoopContinues(running) THEN "recv" ELSE "done"
    /\ UNCHANGED reasm_vars
    /\ UNCHANGED <<orch_vars, cli_vars, fn_vars, rec_vars>>

\* run(): if raw_frame: put the decoded frame; elif self._running: raise;
\* else: break - with the except clause that ends the loop on any exception
RunHandleFrame ==
    /\ pc = "returned"
    /\ LET raw_frame == ret[1].data
       IN  /\ raw_frames' = Append(raw_frames, raw_frame)
           /\ IF TruthRaises(raw_frame)
              THEN pc' = "done" /\ out_queue' = out_queue
              ELSE IF Truth(raw_frame)
              THEN IF InterpretRaises(raw_frame, radar_cfg)
                   THEN pc' = "done" /\ out_queue' = out_queue
                   ELSE /\ pc' = "loop"
                        /\ out_queue' = Append(out_queue,
                                               InterpretRawData(raw_frame, radar_cfg))
              ELSE pc' = "done" /\ out_queue' = out_queue
    /\ UNCHANGED <<reasm_vars, cli_vars, fn_vars, rec_vars>>
    /\ UNCHANGED <<radar_cfg, cli, dca, running, thread, ser_open, sockets_open,
                   events, call, observed, abandoned>>

\* an except clause that goes on with the next iteration
RetryAfterExcept == "loop"

\* run(): except Exception: ... break - where the thread goes from the clause
AfterExcept == "done"

\* run(): except Exception: break, for an exception raised inside dca.read()
RunExcept ==
    /\ pc = "raised"
    /\ pc' = AfterExcept
    /\ UNCHANGED reasm_vars
    /\ UNCHANGED <<orch_vars, cli_vars, fn_vars, rec_vars>>

ReasmNext ==
    Tick \/ CallRead \/ RecvPacket \/ RecvFails \/ PlacePacket \/ EvictAndReturn

\* the reassembly engine under a direct caller of read()
Spec == ReasmInit /\ [][ReasmNext]_vars

\* the steps of the thread that executes read()
ReadThread == CallRead \/ RecvWord \/ PlacePacket \/ EvictAndReturn

\* the engine while packets keep arriving: every recvfrom gets a datagram
FairNext == Tick \/ CallRead \/ RecvWord \/ PlacePacket \/ EvictAndReturn

\* the scheduling read() relies on: time passes, and the thread inside read()
\* keeps running with datagrams arriving for it
FairSpec ==
    /\ ReasmInit /\ [][FairNext]_vars
    /\ WF_vars(Tick) /\ WF_vars(ReadThread)

OrchNext ==
    \/ StartAcquisition \/ StopAcquisition \/ Close
    \/ RunEnter \/ RunLoop \/ RecvHalfFrame \/ RecvFails \/ PlacePacket
    \/ EvictAndReturn \/ RunHandleFrame \/ RunExcept

\* the orchestrator: API calls of the application thread and the capture thread
OrchSpec == OrchInit /\ [][OrchNext]_vars

\* the steps of the capture thread: run() and the dca.read() it calls
CaptureThread ==
    \/ RunEnter \/ RunLoop \/ RecvHalfFrame \/ RecvFails \/ PlacePacket
    \/ EvictAndReturn \/ RunHandleFrame \/ RunExcept

\* the orchestrator on hardware that answers, with a capture thread that is
\* scheduled whenever it can take a step; the application may stop calling the
\* API at any time
FairOrchNext == StartAcquisitionOk \/ StopAcquisition \/ Close \/ CaptureThread

FairOrchSpec == OrchInit /\ [][FairOrchNext]_vars /\ WF_vars(CaptureThread)

\* ------------------------------------------------------------ properties
\* absolute sample offsets delivered so far (while no offset was delivered twice)
Delivered == { o \in DOMAIN sent : sent[o] # Uninit }

\* absolute sample offsets of frame k
FrameRange(k) == (k * uint16_in_frame) .. (k * uint16_in_frame + uint16_in_frame - 1)

\* the payloads delivered for frame k, concatenated in offset order
Concatenated(k) == [i \in 1..uint16_in_frame |-> sent[k * uint16_in_frame + i - 1]]

LastCompletion == completions[Len(completions)]

Stale(k) ==
    /\ k \in DOMAIN frame_buff
    /\ now - frame_buff[k].first_seen > TimeoutIncompleteFrames

\* C1: packets that cover the samples of one frame exactly once, in any order
\* and chunking: the place call that fills the last gap returns the frame,
\* equal to the payloads concatenated in offset order, and every call before
\* it returns (None, None).
C1_ReassemblyExactlyOnce ==
    \A k \in FrameIds :
        (clean /\ Delivered \subseteq FrameRange(k) /\ pc # "place")
        => IF Delivered = FrameRange(k)
           THEN ret = <<[frame_id |-> k, data |-> Concatenated(k)]>>
           ELSE ret = <<>>

\* C1 witness: a frame of at least two samples was completed by a packet that
\* arrived out of order (it filled the head of the frame last)
C1_Witness ==
    /\ uint16_in_frame >= 2
    /\ clean
    /\ \E k \in FrameIds : Delivered = FrameRange(k)
    /\ ret # <<>>
    /\ Len(chunks) = 1
    /\ chunks[1].start = 0
    /\ chunks[1].size < uint16_in_frame

\* the sum of the sizes of the first n chunks
RECURSIVE SumSizes(_, _)
SumSizes(cs, n) == IF n = 0 THEN 0 ELSE SumSizes(cs, n - 1) + cs[n].size

\* C2: a packet that crosses a frame boundary is split into consecutive chunks,
\* one per frame touched; the chunk sizes sum to the packet length and payload
\* sample i lands, once, at position (offset+i) mod F of frame (offset+i) div F.
C2_SplitAcrossFrames ==
    [][ (pc = "place" /\ pc' # "place")
        => LET offset == pkt.byte_count \div 2
               n      == Len(pkt.payload)
               first  == offset \div uint16_in_frame
               last   == (offset + n - 1) \div uint16_in_frame
           IN  first # last =>
               /\ Len(chunks') = last - first + 1
               /\ SumSizes(chunks', Len(chunks')) = n
               /\ \A j \in 1..Len(chunks') :
                    /\ chunks'[j].idx = SumSizes(chunks', j - 1)
                    /\ chunks'[j].size >= 1
                    /\ chunks'[j].frame_id = first + j - 1
                    /\ chunks'[j].start = (offset + chunks'[j].idx) % uint16_in_frame
               /\ \A i \in 1..n :
                    LET o   == offset + i - 1
                        fid == o \div uint16_in_frame
                        pos == (o % uint16_in_frame) + 1
                    IN  \/ /\ fid \in DOMAIN frame_buff'
                           /\ frame_buff'[fid].filled[pos]
                           /\ frame_buff'[fid].data[pos] = pkt.payload[i]
                        \/ \E c \in 1..Len(completions') :
                             /\ completions'[c].frame_id = fid
                             /\ completions'[c].data[pos] = pkt.payload[i]
      ]_vars

\* C2 witness: a packet was split over two frames and both stay pending
C2_Witness ==
    /\ Len(chunks) = 2
    /\ completions = <<>>
    /\ chunks[1].frame_id \in DOMAIN frame_buff
    /\ chunks[2].frame_id \in DOMAIN frame_buff

\* C3 as stated: a frame is emitted only if it was completed within the
\* eviction timeout of its first_seen.
C3_Original ==
    ret # <<>> =>
        LastCompletion.done_at - LastCompletion.first_seen <= TimeoutIncompleteFrames

\* C3 amended: the eviction pass read() runs after a completed frame removes
\* every PartialFrame older than the timeout; an evicted PartialFrame is never
\* emitted and never pending again, and a packet arriving later for its
\* frame_id starts a fresh PartialFrame holding that packet only.
C3_EvictedNeverEmitted ==
    [][ /\ (pc = "evict" /\ pc' = "returned")
           => \A k \in DOMAIN frame_buff :
                Stale(k) => (k \notin DOMAIN frame_buff'
                             /\ evicted'[k] = frame_buff[k].first_seen)
        /\ \A k \in DOMAIN frame_buff' : frame_buff'[k].first_seen > evicted'[k]
        /\ ret' # <<>>
           => completions'[Len(completions')].first_seen
                > evicted'[completions'[Len(completions')].frame_id]
        /\ (pc = "place" /\ pc' # "place")
           => \A k \in DOMAIN frame_buff' \ DOMAIN frame_buff :
                /\ frame_buff'[k].first_seen = now
                /\ \A i \in 1..uint16_in_frame :
                     frame_buff'[k].filled[i]
                       <=> (k * uint16_in_frame + i - 1) \in PktRange(pkt)
      ]_vars

\* C3 witness: a frame is emitted under a frame_id whose earlier PartialFrame
\* was evicted
C3_Witness ==
    /\ ret # <<>>
    /\ evicted[ret[1].frame_id] # Uninit

\* C4 as stated: when a packet completes several frames the call returns the
\* first of them.
C4_Original ==
    Len(completions) >= 2
    => ret = <<[frame_id |-> completions[1].frame_id, data |-> completions[1].data]>>

\* C4 amended: the call returns the frame that completed last while the packet
\* was drained; every frame completed by the packet has left the pending map.
C4_ReturnsLastCompleted ==
    completions # <<>>
    => /\ ret = <<[frame_id |-> LastCompletion.frame_id, data |-> LastCompletion.data]>>
       /\ \A i \in 1..Len(completions) : completions[i].frame_id \notin DOMAIN frame_buff

\* C4 witness: one packet completed two frames
C4_Witness == Len(completions) >= 2

\* C5 as stated: while packets keep arriving, a PartialFrame older than the
\* timeout is eventually removed from the pending map.
C5_Original ==
    \A k \in FrameIds : Stale(k) ~> ~Stale(k)

\* C5 amended: the pending map is pruned only when read() returns a completed
\* frame: after that pass no pending PartialFrame is older than the timeout,
\* and in every other step a PartialFrame leaves the map only by completing.
C5_PrunedOnCompletion ==
    [][ /\ (pc = "evict" /\ pc' = "returned")
           => \A k \in DOMAIN frame_buff' :
                now' - frame_buff'[k].first_seen <= TimeoutIncompleteFrames
        /\ pc # "evict"
           => \A k \in DOMAIN frame_buff \ DOMAIN frame_buff' :
                \E c \in 1..Len(completions') : completions'[c].frame_id = k
      ]_vars

\* C5 witness: read() returned a frame and its eviction pass dropped a
\* PartialFrame
C5_Witness ==
    /\ pc = "returned"
    /\ dropped_frames # {}
\* ------------------------------------------------- orchestrator properties
\* the names of the entries of a record of events
Names(evs) == [i \in 1..Len(evs) |-> evs[i].ev]

\* the latest API call was a start_acquisition that wrote a configuration
\* command the radar did not acknowledge
UnackedConfigLine ==
    /\ call.op = "start"
    /\ \E i \in 1..Len(events) : events[i].ev = "cfg" /\ ~events[i].ack

\* C6: while the capture loop is signalled to run, every raw frame read()
\* returns to it is decoded and put on the output queue, one decoded frame per
\* raw frame and in the order the frames completed.
C6_PublishesEveryFrame ==
    pc # "returned"
    => /\ Len(out_queue) = Len(raw_frames)
       /\ \A i \in 1..Len(out_queue) :
            out_queue[i] = InterpretRawData(raw_frames[i], radar_cfg)

\* C7: a start_acquisition that launches the capture loop has before that, in
\* this order, written every non-skipped configuration line and had it
\* acknowledged, reset and configured the capture card, sent record-start and
\* sent sensorStart; record-start and sensorStart are sent only while the CLI
\* client and the capture-card driver are both initialised.
C7_StartOrdering ==
    /\ call.launched
       => /\ Names(events) =
               <<"open_serial">> \o [i \in 1..call.commands |-> "cfg"]
               \o <<"open_sockets", "RESET_FPGA", "SYSTEM_CONNECT", "READ_FPGA_VERSION",
                    "CONFIG_FPGA_GEN", "CONFIG_PACKET_DATA",
                    "RECORD_START", "sensorStart", "thread_start">>
          /\ \A i \in 1..Len(events) :
               events[i].ev = "cfg" => (events[i].ack /\ events[i].n = i - 1)
          /\ thread = "started"
    /\ \A i \in 1..Len(events) :
         events[i].ev \in {"RECORD_START", "sensorStart"} => (cli # None /\ dca # None)

\* C7 witness: the capture loop was launched by a start whose configuration
\* file had a skipped line and a command, with sensorStart not acknowledged
C7_Witness ==
    /\ call.launched
    /\ call.commands >= 1
    /\ call.commands < MaxCfgLines
    /\ pc = "run"
    /\ \E i \in 1..Len(events) : events[i].ev = "sensorStart" /\ ~events[i].ack

\* C8: when a configuration line is not acknowledged, start_acquisition
\* aborts: nothing is written after that line, no record-start and no
\* sensorStart is sent, the capture loop is not launched and the running flag
\* stays false.
C8_UnackedConfigAborts ==
    UnackedConfigLine
    => /\ ~events[Len(events)].ack
       /\ \A i \in 1..Len(events) :
            events[i].ev \notin {"RECORD_START", "sensorStart", "thread_start"}
       /\ ~call.launched
       /\ thread = "new"
       /\ pc = "idle"
       /\ ~running

\* C8 witness: the second command of the file was not acknowledged, after an
\* acknowledged first one
C8_Witness ==
    /\ UnackedConfigLine
    /\ Len(events) = 3
    /\ events[2].ack

\* C9 as stated: a start that failed at configuration time raises or returns
\* something, and what a caller gets from a failed start is never what a
\* caller gets from a successful one.
C9_Original ==
    /\ (call.op = "start" /\ call.init_failed) => (call.raised \/ call.ret # None)
    /\ observed.failed \cap observed.started = {}

\* C9 amended: start_acquisition catches a configuration-time failure: the
\* call returns None without raising, as a successful start does; the failure
\* shows in the orchestrator only - cli or dca is None, the running flag is
\* false and the thread was not started - where the successful start leaves
\* both set, the flag true and the thread started.
C9_FailureShowsInStateOnly ==
    /\ (call.op = "start" /\ call.init_failed)
       => /\ call.ret = None /\ ~call.raised
          /\ cli = None \/ dca = None
          /\ ~running
          /\ thread = "new"
    /\ (call.op = "start" /\ call.launched)
       => /\ call.ret = None /\ ~call.raised
          /\ cli # None /\ dca # None
          /\ running
          /\ thread = "started"

\* C9 witness: the capture card could not be constructed after the radar took
\* its configuration
C9_Witness ==
    /\ call.op = "start"
    /\ call.init_failed
    /\ cli # None
    /\ dca = None

\* a start_acquisition step, called while acquisition is on after an earlier
\* successful start (a repeated call that changes nothing at all is no step)
SecondStart ==
    /\ thread = "started" /\ running
    /\ cli # None /\ dca # None /\ ser_open /\ sockets_open
    /\ call'.op = "start"
    /\ <<call', events'>> # <<call, events>>

\* C10 as stated: a second start_acquisition sends no command, launches no
\* second capture loop and changes no orchestrator state.
C10_Original ==
    [][ SecondStart
        => /\ events' = <<>>
           /\ ~call'.launched /\ pc' = pc
           /\ <<cli', dca', running', thread', ser_open', sockets_open'>>
                = <<cli, dca, running, thread, ser_open, sockets_open>>
      ]_vars

\* C10 amended: a second start_acquisition does not initialise the hardware
\* again, launches no second capture loop and changes no orchestrator state,
\* but it sends record-start and sensorStart again; its attempt to start the
\* thread again fails inside the call, which returns None.
C10_SecondStartResends ==
    [][ SecondStart
        => /\ Names(events') = <<"RECORD_START", "sensorStart", "thread_start">>
           /\ ~events'[3].ack
           /\ ~call'.launched /\ pc' = pc
           /\ call'.ret = None /\ ~call'.raised /\ ~call'.init_failed
           /\ <<cli', dca', running', thread', ser_open', sockets_open'>>
                = <<cli, dca, running, thread, ser_open, sockets_open>>
           /\ <<uint16_in_frame', frame_buff'>> = <<uint16_in_frame, frame_buff>>
      ]_vars

\* C10 witness: a second start was made while the capture loop was reading
C10_Witness ==
    /\ call.op = "start"
    /\ ~call.launched /\ ~call.init_failed
    /\ Len(events) = 3
    /\ pc \in {"recv", "place"}

\* the entries of events that are attempts of the command name
Attempts(name) == { i \in 1..Len(events) : events[i].ev = name }

\* C11 as stated: stop_acquisition raises nothing, clears the running flag and
\* attempts both the sensor-stop and the stream-stop command, in every state.
C11_Original ==
    call.op = "stop"
    => /\ ~call.raised
       /\ ~running
       /\ Attempts("sensorStop") # {}
       /\ Attempts("RECORD_STOP") # {}

\* C11 amended: stop_acquisition raises nothing and clears the running flag in
\* every state; it attempts the sensor-stop exactly when the CLI client exists
\* and the stream-stop exactly when the capture-card driver exists, the
\* stream-stop also when the sensor-stop attempt failed.
C11_StopAttemptsWhatExists ==
    call.op = "stop"
    => /\ ~call.raised
       /\ ~running
       /\ (Attempts("sensorStop") # {}) <=> (cli # None)
       /\ (Attempts("RECORD_STOP") # {}) <=> (dca # None)

\* C11 witness: a stop after close: the sensor-stop attempt failed on the
\* closed port and the stream-stop was attempted all the same
C11_Witness ==
    /\ call.op = "stop"
    /\ Len(events) = 2
    /\ events[1].ev = "sensorStop" /\ ~events[1].ack
    /\ events[2].ev = "RECORD_STOP"

\* C12 as stated: after a stop_acquisition the next API call does not set the
\* running flag, sends no record-start or sensorStart and launches no capture
\* loop.
C12_Original ==
    [][ call.op = "stop"
        => /\ ~running'
           /\ Attempts("RECORD_START")' = {}
           /\ Attempts("sensorStart")' = {}
           /\ ~(pc # "run" /\ pc' = "run")
      ]_vars

\* C12 amended: stop_acquisition is terminal for a capture loop that has
\* ended only: the thread is started at most once and a loop that ended never
\* runs again; a start_acquisition after a stop sets the running flag again
\* and sends record-start and sensorStart again whenever the port and the
\* sockets are open.
C12_EndedLoopNeverRunsAgain ==
    [][ /\ pc = "done" => pc' = "done"
        /\ thread = "started" => (thread' = "started" /\ ~(pc # "run" /\ pc' = "run"))
        /\ (call.op = "stop" /\ call'.op = "start" /\ cli # None /\ dca # None
              /\ ser_open /\ sockets_open)
           => /\ running'
              /\ Attempts("RECORD_START")' # {}
              /\ Attempts("sensorStart")' # {}
      ]_vars

\* C12 witness: a start after a stop set the running flag again while the
\* capture loop, started before, was still inside read()
C12_Witness ==
    /\ call.op = "start"
    /\ ~call.launched /\ ~call.init_failed
    /\ running
    /\ Attempts("thread_start") # {}
    /\ pc = "recv"
    /\ raw_frames = <<>>

\* C14: an exception raised inside the capture loop by the read (a timeout, a
\* socket error, a malformed datagram) ends the loop inside the thread: the
\* except clause takes the thread to its end, nothing is put on the queue for
\* that iteration, and the ended thread reads no datagram and publishes
\* nothing.
C14_ReadErrorEndsLoop ==
    [][ /\ (pc = "raised" /\ pc' # pc)
           => (pc' = "done" /\ out_queue' = out_queue /\ frame_buff' = frame_buff)
        /\ pc = "done"
           => (pc' = "done" /\ out_queue' = out_queue /\ pkt' = pkt
               /\ frame_buff' = frame_buff)
      ]_vars

\* C14 witness: the loop ended on a failed read while still signalled to run
\* (no API call since the start that launched it)
C14_Witness ==
    /\ pc = "done"
    /\ call.launched
    /\ running
    /\ raw_frames = <<>>

\* C13 as stated: if the stop signal stays set from some point on, the capture
\* loop of a started thread terminates, whatever datagrams arrive.
C13_Original ==
    <>[](~running /\ thread = "started") => <>(pc = "done")

\* C13 amended: the stop signal is looked at between reads only: with the
\* signal set, a capture thread that is outside recvfrom - its read has
\* returned a frame or raised (a timeout when no datagram arrives), or it is
\* at the loop test - terminates unless a start_acquisition sets the flag
\* again; while datagrams keep arriving without completing a frame the read
\* does not return and the loop does not terminate.
C13_StopsBetweenReads ==
    (~running /\ pc \in {"run", "loop", "evict", "returned", "raised"})
        ~> (pc = "done" \/ running)

\* C13 witness: the stop signal was set while a read was in progress and the
\* read has now returned a frame: the thread is between reads with the signal
\* set
C13_Witness ==
    /\ pc = "returned"
    /\ ~running
    /\ call.op = "stop"
    /\ completions # <<>>

\* ------------------------------------------------ RadarCLI with a monitor
\* the longest timeout of _send_and_listen, in poll periods of 0.1 s
MaxCliTimeout == 3

\* the most lines the peer sends for one command
MaxPeerLines == 2

\* _send_and_listen: time.sleep(0.2) after the write, in poll periods
SettleTicks == 2

\* what a line of the peer contains, as _send_and_listen tells lines apart
PeerLines == {"Done", "Error", "other"}

\* configuration files of up to MaxCfgLines lines
ClientFiles == UNION { [1..n -> LineKinds] : n \in 0..MaxCfgLines }

\* everything but the RadarCLI
other_vars == <<reasm_vars, pc, orch_vars, fn_vars, rec_vars>>

\* a send_config that skips blank lines only
SkipBlankOnly(kind) == kind = "blank"

\* send_config: if not line or line.startswith('%'): continue
SkipLine(kind) == kind \in {"blank", "comment"}

\* send_config: the next line of file after line i that is not skipped, 0 when
\* there is none
NextLine(file, i) ==
    LET rest == { j \in (i + 1)..Len(file) : ~SkipLine(file[j]) }
    IN  IF rest = {} THEN 0 ELSE CHOOSE j \in rest : \A k \in rest : j <= k

\* a _send_and_listen without the test of the port
NeverUnavailable(s, open) == FALSE

\* _send_and_listen: if not self.ser or not self.ser.is_open: raise
PortUnavailable(s, open) == s = None \/ ~open

\* a send_config that goes on after a line that was not acknowledged
ConfigGoesOn(ok) == FALSE

\* send_config: if not success: raise Exception(...)
ConfigFails(ok) == ~ok

\* a close that sends sensorStop whatever the state of the port
CloseAlwaysSendsStop(s, open) == TRUE

\* close: if self.ser and self.ser.is_open
CloseSendsStop(s, open) == s # None /\ open

\* a poll loop that does not look for "Error"
RejectsNothing(data) == FALSE

\* _send_and_listen: if "Error" in self.last_received_data
Rejects(data) == data = "Error"

\* _send_and_listen: if "Done" in self.last_received_data
Acknowledges(data) == data = "Done"

\* the SerialMonitor thread has no step to take: it has left run(), or it is
\* in its loop and no line is waiting
MonitorQuiet ==
    \/ ~monitor_alive
    \/ monitor_running /\ is_open /\ in_waiting = <<>>

\* a RadarCLI method is called: the histories of the call start empty
BeginCall(name, file, timeout) ==
    /\ cmd_pc = "idle"
    /\ op' = [name |-> name, file |-> file, i |-> 0, timeout |-> timeout]
    /\ outcome' = "none"
    /\ written' = <<>>
    /\ answer' = <<>>

\* a RadarCLI method returns or raises
EndCall(how) ==
    /\ cmd_pc' = "idle"
    /\ outcome' = how

\* send_config(config_file_path): the file is read
CallSendConfig ==
    \E file \in ClientFiles, t \in 1..MaxCliTimeout :
        /\ BeginCall("config", file, t)
        /\ cmd_pc' = "next_line"
        /\ UNCHANGED <<ser, is_open, monitor_running, monitor_alive, in_waiting,
                       last_received_data, elapsed, wake, end_time, returned>>
        /\ UNCHANGED other_vars

\* send_config: for line in config_file: skipped lines are passed over, the
\* next other line goes to _send_and_listen; after the last line it returns
ConfigNextLine ==
    /\ cmd_pc = "next_line"
    /\ LET j == NextLine(op.file, op.i)
       IN  IF j = 0
           THEN /\ EndCall("None")
                /\ UNCHANGED op
           ELSE /\ op' = [op EXCEPT !.i = j]
                /\ cmd_pc' = "begin"
                /\ UNCHANGED outcome
    /\ UNCHANGED <<ser, is_open, monitor_running, monitor_alive, in_waiting,
                   last_received_data, elapsed, wake, end_time, returned,
                   written, answer>>
    /\ UNCHANGED other_vars

\* send_start_cmd() and send_stop_cmd(): return self._send_and_listen(...)
CallSendCmd(name) ==
    \E t \in 1..MaxCliTimeout :
        /\ BeginCall(name, <<>>, t)
        /\ cmd_pc' = "begin"
        /\ UNCHANGED <<ser, is_open, monitor_running, monitor_alive, in_waiting,
                       last_received_data, elapsed, wake, end_time, returned>>
        /\ UNCHANGED other_vars

\* send_start_cmd()
CallSendStart == CallSendCmd("sensorStart")

\* send_stop_cmd()
CallSendStop == CallSendCmd("sensorStop")

\* close(): self.serial_monitor.stop()
CallClose ==
    \E t \in 1..MaxCliTimeout :
        /\ BeginCall("close", <<>>, t)
        /\ monitor_running' = FALSE
        /\ cmd_pc' = "join"
        /\ UNCHANGED <<ser, is_open, monitor_alive, in_waiting,
                       last_received_data, elapsed, wake, end_time, returned>>
        /\ UNCHANGED other_vars

\* a join that does not wait for the monitor
JoinReturnsAtOnce(alive) == TRUE

\* self.serial_monitor.join(timeout=1.0) is over: the monitor has left run()
Joined(alive) == ~alive

\* close(): self.serial_monitor.join(timeout=1.0) returns once the monitor,
\* whose loop takes 0.01 s, has left run(); then the test of the port
CloseJoin ==
    /\ cmd_pc = "join"
    /\ Joined(monitor_alive)
    /\ IF CloseSendsStop(ser, is_open)
       THEN /\ cmd_pc' = "begin"
            /\ UNCHANGED outcome
       ELSE EndCall("None")
    /\ UNCHANGED <<ser, is_open, monitor_running, monitor_alive, in_waiting,
                   last_received_data, op, elapsed, wake, end_time, returned,
                   written, answer>>
    /\ UNCHANGED other_vars

\* a _send_and_listen that leaves the slot as the listener left it
SlotKept(data) == data

\* _send_and_listen: self.last_received_data = None
Cleared(data) == None

\* _send_and_listen: the test of the port, which raises to the caller of the
\* method, then self.last_received_data = None
SalBegin ==
    /\ cmd_pc = "begin"
    /\ IF PortUnavailable(ser, is_open)
       THEN /\ EndCall("raised")
            /\ UNCHANGED <<last_received_data, answer>>
       ELSE /\ last_received_data' = Cleared(last_received_data)
            /\ answer' = [k \in 1..Len(in_waiting) |->
                            [line |-> in_waiting[k], at |-> -1]]
            /\ cmd_pc' = "write"
            /\ UNCHANGED outcome
    /\ UNCHANGED <<ser, is_open, monitor_running, monitor_alive, in_waiting, op,
                   elapsed, wake, end_time, returned, written>>
    /\ UNCHANGED other_vars

\* _send_and_listen: self.ser.write(...), which may raise SerialException
\* (caught: return False), then time.sleep(0.2)
SalWrite ==
    /\ cmd_pc = "write"
    /\ \E write_ok \in BOOLEAN :
         IF write_ok
         THEN /\ written' = Append(written, [cmd |-> op.name, n |-> op.i])
              /\ elapsed' = 0
              /\ wake' = SettleTicks
              /\ cmd_pc' = "settle"
              /\ UNCHANGED returned
         ELSE /\ returned' = FALSE
              /\ cmd_pc' = "ret"
              /\ UNCHANGED <<written, elapsed, wake>>
    /\ UNCHANGED <<ser, is_open, monitor_running, monitor_alive, in_waiting,
                   last_received_data, op, end_time, outcome, answer>>
    /\ UNCHANGED other_vars

\* _send_and_listen: the sleep is over: end_time = time.time() + timeout
SalSettle ==
    /\ cmd_pc = "settle"
    /\ elapsed >= wake
    /\ end_time' = elapsed + op.timeout
    /\ cmd_pc' = "poll"
    /\ UNCHANGED <<ser, is_open, monitor_running, monitor_alive, in_waiting,
                   last_received_data, op, elapsed, wake, returned, outcome,
                   written, answer>>
    /\ UNCHANGED other_vars

\* _send_and_listen: one turn of while time.time() < end_time, ending in
\* return True, break, time.sleep(0.1) or the end of the loop
SalPoll ==
    /\ cmd_pc = "poll"
    /\ elapsed >= wake
    /\ IF elapsed < end_time
       THEN IF last_received_data # None /\ Acknowledges(last_received_data)
            THEN /\ returned' = TRUE
                 /\ cmd_pc' = "ret"
                 /\ UNCHANGED wake
            ELSE IF last_received_data # None /\ Rejects(last_received_data)
                 THEN /\ returned' = FALSE
                      /\ cmd_pc' = "ret"
                      /\ UNCHANGED wake
                 ELSE /\ wake' = elapsed + 1
                      /\ UNCHANGED <<returned, cmd_pc>>
       ELSE /\ returned' = FALSE
            /\ cmd_pc' = "ret"
            /\ UNCHANGED wake
    /\ UNCHANGED <<ser, is_open, monitor_running, monitor_alive, in_waiting,
                   last_received_data, op, elapsed, end_time, outcome, written,
                   answer>>
    /\ UNCHANGED other_vars

\* _send_and_listen has returned to send_config (which raises or goes on), to
\* send_start_cmd or send_stop_cmd (which return the result) or to close
\* (which drops it: self.ser.close(); self.ser = None)
SalReturn ==
    /\ cmd_pc = "ret"
    /\ IF op.name = "config"
       THEN IF ConfigFails(returned)
            THEN /\ EndCall("raised")
                 /\ UNCHANGED <<ser, is_open>>
            ELSE /\ cmd_pc' = "next_line"
                 /\ UNCHANGED <<outcome, ser, is_open>>
       ELSE IF op.name = "close"
            THEN /\ EndCall("None")
                 /\ ser' = None
                 /\ is_open' = FALSE
            ELSE /\ EndCall(IF returned THEN "True" ELSE "False")
                 /\ UNCHANGED <<ser, is_open>>
    /\ elapsed' = 0
    /\ wake' = 0
    /\ end_time' = 0
    /\ UNCHANGED <<monitor_running, monitor_alive, in_waiting,
                   last_received_data, op, returned, written, answer>>
    /\ UNCHANGED other_vars

\* 0.1 s pass while the caller sleeps; the monitor, whose loop takes 0.01 s,
\* has read every line that was waiting
CliTick ==
    /\ cmd_pc \in {"settle", "poll"}
    /\ elapsed < wake
    /\ MonitorQuiet
    /\ elapsed' = elapsed + 1
    /\ UNCHANGED <<ser, is_open, monitor_running, monitor_alive, in_waiting,
                   last_received_data, cmd_pc, op, wake, end_time, returned,
                   outcome, written, answer>>
    /\ UNCHANGED other_vars

\* the peer sends a line while a command is waiting for its reply
PeerSend ==
    /\ cmd_pc \in {"settle", "poll"}
    /\ Len(answer) < MaxPeerLines
    /\ \E line \in PeerLines :
         /\ in_waiting' = Append(in_waiting, line)
         /\ answer' = Append(answer, [line |-> line, at |-> elapsed])
    /\ UNCHANGED <<ser, is_open, monitor_running, monitor_alive,
                   last_received_data, cmd_pc, op, elapsed, wake, end_time,
                   returned, outcome, written>>
    /\ UNCHANGED other_vars

\* SerialMonitor.run: one turn of the loop with a line waiting: readline, then
\* data_callback: self.last_received_data = data
MonitorDeliver ==
    /\ monitor_alive
    /\ monitor_running
    /\ is_open
    /\ in_waiting # <<>>
    /\ last_received_data' = Head(in_waiting)
    /\ in_waiting' = Tail(in_waiting)
    /\ UNCHANGED <<ser, is_open, monitor_running, monitor_alive, cmd_pc, op,
                   elapsed, wake, end_time, returned, outcome, written, answer>>
    /\ UNCHANGED other_vars

\* SerialMonitor.run: while self.running ends the loop, or in_waiting raises
\* on a closed port
MonitorExit ==
    /\ monitor_alive
    /\ ~monitor_running \/ ~is_open
    /\ monitor_alive' = FALSE
    /\ UNCHANGED <<ser, is_open, monitor_running, in_waiting,
                   last_received_data, cmd_pc, op, elapsed, wake, end_time,
                   returned, outcome, written, answer>>
    /\ UNCHANGED other_vars

\* a RadarCLI in use, nothing else going on
CliInit == OrchInit /\ radar_cfg.num_adc_samples = 2 /\ frame_period = 1

CliNext ==
    \/ CallSendConfig \/ ConfigNextLine \/ CallSendStart \/ CallSendStop
    \/ CallClose \/ CloseJoin
    \/ SalBegin \/ SalWrite \/ SalSettle \/ SalPoll \/ SalReturn
    \/ CliTick \/ PeerSend \/ MonitorDeliver \/ MonitorExit

\* the RadarCLI: the caller's thread, the monitor thread, the peer, the clock
CliSpec == CliInit /\ [][CliNext]_vars

\* _send_and_listen has just returned for a command it wrote
Replied == cmd_pc = "ret" /\ written # <<>> /\ elapsed >= SettleTicks

\* the peer sent exactly one line for the command, of the given kind
OnlyAnswer(kind) == Len(answer) = 1 /\ answer[1].line = kind /\ answer[1].at >= 0

C16_DoneIsObserved ==
    (/\ Replied
     /\ \E k \in 1..Len(answer) :
          answer[k].line = "Done" /\ answer[k].at >= 0 /\ answer[k].at < op.timeout
     /\ \A k \in 1..Len(answer) : answer[k].line # "Error" /\ answer[k].at >= 0)
    => returned

\* the indices of the lines of file that are commands, in file order
CommandLines(file) ==
    SelectSeq([j \in 1..Len(file) |-> j], LAMBDA j : file[j] = "cmd")

\* C17: send_config writes the lines that are neither blank nor comments, in
\* file order and nothing else: what it has written is always a prefix of
\* them, all of them when it returns; a line after the first is written only
\* after _send_and_listen returned True for the line before it.
C17_SendsCommandLinesInOrder ==
    op.name = "config"
    => LET cmds == CommandLines(op.file)
       IN  /\ Len(written) <= Len(cmds)
           /\ \A k \in 1..Len(written) :
                written[k] = [cmd |-> "config", n |-> cmds[k]]
           /\ (cmd_pc = "idle" /\ outcome = "None") => Len(written) = Len(cmds)
           /\ (cmd_pc \in {"begin", "write"} /\ written # <<>>) => returned

\* C17 witness: send_config returned after it skipped a line and wrote a
\* command line
C17_Witness ==
    /\ op.name = "config"
    /\ cmd_pc = "idle"
    /\ outcome = "None"
    /\ written # <<>>
    /\ \E j \in 1..Len(op.file) : op.file[j] # "cmd"

\* C18: when _send_and_listen returns False for a line, send_config raises at
\* once: the next step of its thread ends the call with an exception, nothing
\* is written before that, and nothing is written between calls.
C18_FailsOnFirstUnacknowledged ==
    [][ /\ (op.name = "config" /\ cmd_pc = "ret" /\ ~returned)
           => /\ written' = written
              /\ cmd_pc' # cmd_pc => (cmd_pc' = "idle" /\ outcome' = "raised")
        /\ cmd_pc = "idle" => Len(written') <= Len(written)
      ]_vars

\* C18 witness: send_config raised on the first of two command lines, which
\* was written and not acknowledged; the second was not written
C18_Witness ==
    /\ op.name = "config"
    /\ cmd_pc = "idle"
    /\ outcome = "raised"
    /\ op.file = <<"cmd", "cmd">>
    /\ written = <<[cmd |-> "config", n |-> 1]>>

\* send_start_cmd or send_stop_cmd has ended
StartStopEnded == op.name \in {"sensorStart", "sensorStop"} /\ cmd_pc = "idle"

\* C19 as stated: send_start_cmd and send_stop_cmd end with a boolean in every
\* state of the client, True only when "Done" was received.
C19_Original ==
    StartStopEnded
    => /\ outcome \in {"True", "False"}
       /\ outcome = "True" => \E k \in 1..Len(answer) : answer[k].line = "Done"

\* C19 amended: send_start_cmd and send_stop_cmd raise exactly when the port
\* is not open (after close); with the port open they return a boolean, False
\* when the write failed, True only when "Done" was received.
C19_RaisesOnlyWhenPortNotOpen ==
    StartStopEnded
    => /\ outcome \in {"True", "False", "raised"}
       /\ outcome = "raised" <=> (ser = None \/ ~is_open)
       /\ outcome = "True"
            => (written # <<>> /\ \E k \in 1..Len(answer) : answer[k].line = "Done")
       /\ (outcome # "raised" /\ written = <<>>) => outcome = "False"

\* C19 witness: send_start_cmd after close raised
C19_Witness ==
    /\ StartStopEnded
    /\ op.name = "sensorStart"
    /\ ser = None
    /\ outcome = "raised"

\* C20: a close ends with the port released and the monitor stopped, and a
\* close on a client that is already closed writes nothing, raises nothing
\* and leaves the client as it was.
C20_CloseIsIdempotent ==
    [][ /\ (op'.name = "close" /\ cmd_pc' = "idle")
           => (ser' = None /\ ~is_open' /\ ~monitor_running' /\ ~monitor_alive'
               /\ outcome' = "None")
        /\ (op'.name = "close" /\ ser = None)
           => (/\ UNCHANGED <<ser, is_open, monitor_running, monitor_alive,
                              in_waiting, last_received_data>>
               /\ written' = <<>>
               /\ outcome' # "raised")
      ]_vars

\* C20 witness: a close is under way on a client that was closed before
C20_Witness ==
    /\ op.name = "close"
    /\ cmd_pc = "join"
    /\ ser = None
    /\ ~monitor_alive

\* ------------------------------------------ functions called on their own
\* everything but the record of the function called last
fn_rest == <<reasm_vars, pc, orch_vars, cli_vars, rec_vars>>

\* replies of the capture card to a command, as raw bytes
ReplyBytes == { <<>>, <<0>>, <<90, 165>> }

\* resp = '': the empty str _send_command starts with
EmptyStr == [type |-> "str", bytes |-> <<>>]

\* the bytes object recvfrom returns
Bytes(b) == [type |-> "bytes", bytes |-> b]

\* no value: the call raised
NoValue == [type |-> "none", bytes |-> <<>>]

\* a _send_command that lets socket.timeout go to its caller
TimeoutRaises == [resp |-> NoValue, raised |-> TRUE]

\* _send_command: except socket.timeout as e: print(e), then return resp
OnTimeout == [resp |-> EmptyStr, raised |-> FALSE]

\* _send_command(cmd): settimeout on a closed socket raises OSError; else the
\* datagram is sent and the reply, or '' after a timeout, is returned
SendCommand(cmd, answered, reply, open) ==
    IF ~open
    THEN [sent |-> <<>>, resp |-> NoValue, raised |-> TRUE]
    ELSE IF answered
         THEN [sent |-> <<cmd>>, resp |-> Bytes(reply), raised |-> FALSE]
         ELSE [sent |-> <<cmd>>, resp |-> OnTimeout.resp, raised |-> OnTimeout.raised]

\* the command code reset, start_stream and stop_stream pass to _send_command
CommandOf(name) ==
    CASE name = "reset"        -> "RESET_FPGA"
      [] name = "start_stream" -> "RECORD_START"
      [] name = "stop_stream"  -> "RECORD_STOP"

\* DCA1000.reset(), start_stream() or stop_stream() is called
ApplyCommand ==
    /\ applied.name = "none"
    /\ \E name \in {"reset", "start_stream", "stop_stream"},
          answered \in BOOLEAN, reply \in ReplyBytes, open \in BOOLEAN :
         /\ answered \/ reply = <<>>
         /\ applied' = [name |-> name,
                        arg  |-> [answered |-> answered, reply |-> reply,
                                  open |-> open],
                        out  |-> SendCommand(CommandOf(name), answered, reply, open)]
    /\ UNCHANGED fn_rest

\* a command function was called on open sockets
CommandApplied ==
    applied.name \in {"reset", "start_stream", "stop_stream"} /\ applied.arg.open

\* C21 as stated: reset, start_stream and stop_stream send one command
\* datagram and return the raw reply bytes; without a reply within the
\* deadline the call fails with an error and returns no value.
C21_Original ==
    CommandApplied
    => /\ applied.out.sent = <<CommandOf(applied.name)>>
       /\ applied.arg.answered
            => (~applied.out.raised /\ applied.out.resp = Bytes(applied.arg.reply))
       /\ ~applied.arg.answered
            => (applied.out.raised /\ applied.out.resp = NoValue)

\* C21 amended: reset, start_stream and stop_stream send one command datagram
\* and return the raw reply bytes; without a reply within the deadline the
\* call does not fail: it returns the empty str '', which is no bytes object,
\* so a caller can tell an unanswered command from an answered one by the
\* type of the value only.
C21_TimeoutReturnsEmptyStr ==
    CommandApplied
    => /\ applied.out.sent = <<CommandOf(applied.name)>>
       /\ ~applied.out.raised
       /\ applied.arg.answered => applied.out.resp = Bytes(applied.arg.reply)
       /\ ~applied.arg.answered
            => (applied.out.resp = EmptyStr
                /\ \A b \in ReplyBytes : applied.out.resp # Bytes(b))

\* C21 witness: a reset that got no reply returned ''
C21_Witness ==
    /\ CommandApplied
    /\ applied.name = "reset"
    /\ ~applied.arg.answered
    /\ applied.out.resp = EmptyStr

\* the values a byte of the packet number takes
PnBytes == {0, 255}

\* the values a byte of the byte offset takes
OffBytes == {0, 2}

\* the values a byte of the payload takes
PayloadBytes == {1, 255}

\* the most payload bytes of a datagram
MaxPayloadBytes == 3

\* the 10 bytes in front of the payload
HeaderLen == 10

\* data datagrams: a packet number, a byte offset and a payload, and the
\* datagrams that are shorter than that
Datagrams ==
    { pn \o off \o p :
        pn \in [1..4 -> PnBytes], off \in [1..6 -> OffBytes],
        p \in UNION { [1..n -> PayloadBytes] : n \in 0..MaxPayloadBytes } }
    \cup UNION { [1..n -> PnBytes] : n \in 0..(HeaderLen - 1) }

\* data[::-1]
Reverse(b) == [i \in 1..Len(b) |-> b[Len(b) + 1 - i]]

\* struct.unpack('<1l', b): the little-endian signed 32-bit value of 4 bytes
Int32LE(b) ==
    b[1] + 256 * b[2] + 65536 * b[3]
      + 16777216 * (IF b[4] >= 128 THEN b[4] - 256 ELSE b[4])

\* an unpack of the byte offset that keeps the order of the bytes
OffsetKeepsOrder(data) == <<0, 0>> \o SubSeq(data, 5, 10)

\* struct.unpack('>Q', b'\x00\x00' + data[4:10][::-1]): the 64-bit unsigned
\* value, as its 8 bytes from the most significant down
OffsetQ(data) == <<0, 0>> \o Reverse(SubSeq(data, 5, 10))

\* np.frombuffer(b, dtype=np.uint16) on a little-endian host
Uint16Words(b) == [i \in 1..(Len(b) \div 2) |-> b[2 * i - 1] + 256 * b[2 * i]]

\* _read_data_packet on the datagram data: struct.unpack raises on fewer than
\* 4 or 8 bytes, np.frombuffer on an odd number of bytes
ReadDataPacket(data) ==
    IF Len(data) < HeaderLen \/ (Len(data) - HeaderLen) % 2 # 0
    THEN [raised |-> TRUE, packet_num |-> 0, byte_count |-> <<>>,
          packet_data |-> <<>>]
    ELSE [raised |-> FALSE,
          packet_num |-> Int32LE(SubSeq(data, 1, 4)),
          byte_count |-> OffsetQ(data),
          packet_data |-> Uint16Words(SubSeq(data, HeaderLen + 1, Len(data)))]

\* DCA1000._read_data_packet() receives a datagram
ApplyReadDataPacket ==
    /\ applied.name = "none"
    /\ \E data \in Datagrams :
         applied' = [name |-> "_read_data_packet", arg |-> data,
                     out |-> ReadDataPacket(data)]
    /\ UNCHANGED fn_rest

\* _read_data_packet got a datagram of at least 10 bytes
PacketApplied ==
    applied.name = "_read_data_packet" /\ Len(applied.arg) >= 10

\* the value of bytes lo..hi of the datagram read least significant first,
\* as 8 bytes from the most significant down
LittleEndian48(data) ==
    <<0, 0, data[10], data[9], data[8], data[7], data[6], data[5]>>

\* the packet number of the datagram: bytes 0-3, least significant first,
\* two's complement
SignedLE32(data) ==
    LET u == data[1] + 256 * data[2] + 65536 * data[3]
    IN  IF data[4] < 128 THEN u + 16777216 * data[4]
        ELSE u - 16777216 * (256 - data[4])

\* C22 as stated: for every datagram of at least 10 bytes _read_data_packet
\* returns the little-endian signed 32-bit value of bytes 0-3, the big-endian
\* 48-bit value of bytes 4-9 zero-extended to 64 bits, and the little-endian
\* uint16 words of the remaining bytes.
C22_Original ==
    PacketApplied
    => /\ ~applied.out.raised
       /\ applied.out.packet_num = SignedLE32(applied.arg)
       /\ applied.out.byte_count
            = <<0, 0, applied.arg[5], applied.arg[6], applied.arg[7],
                applied.arg[8], applied.arg[9], applied.arg[10]>>
       /\ Len(applied.out.packet_data) * 2 = Len(applied.arg) - 10
       /\ \A i \in 1..Len(applied.out.packet_data) :
            applied.out.packet_data[i]
              = applied.arg[9 + 2 * i] + 256 * applied.arg[10 + 2 * i]

\* C22 amended: for every datagram of at least 10 bytes with an even number
\* of bytes after the tenth, _read_data_packet returns the little-endian
\* signed 32-bit value of bytes 0-3, the little-endian 48-bit value of bytes
\* 4-9 zero-extended to 64 bits, and the little-endian uint16 words of the
\* remaining bytes; with an odd number of remaining bytes it raises.
C22_OffsetIsLittleEndian ==
    PacketApplied
    => IF (Len(applied.arg) - 10) % 2 # 0
       THEN applied.out.raised
       ELSE /\ ~applied.out.raised
            /\ applied.out.packet_num = SignedLE32(applied.arg)
            /\ applied.out.byte_count = LittleEndian48(applied.arg)
            /\ Len(applied.out.packet_data) * 2 = Len(applied.arg) - 10
            /\ \A i \in 1..Len(applied.out.packet_data) :
                 applied.out.packet_data[i]
                   = applied.arg[9 + 2 * i] + 256 * applied.arg[10 + 2 * i]

\* C22 witness: a datagram whose byte offset reads differently in the two
\* byte orders, with a negative packet number and one payload word
C22_Witness ==
    /\ PacketApplied
    /\ ~applied.out.raised
    /\ applied.arg[5] # applied.arg[10]
    /\ applied.out.packet_num < 0
    /\ Len(applied.out.packet_data) = 1

\* ------------------------------------------------- last_received_data
\* the step is one turn of the listener that hands a line to data_callback
ListenerStores ==
    /\ in_waiting # <<>>
    /\ in_waiting' = Tail(in_waiting)
    /\ last_received_data' = Head(in_waiting)
    /\ cmd_pc' = cmd_pc

\* C31 as stated: last_received_data is written only by the background
\* listener; no step of the command-sending thread writes it.
C31_Original ==
    [][ /\ last_received_data' # last_received_data => ListenerStores
        /\ cmd_pc' # cmd_pc => last_received_data' = last_received_data
      ]_vars

\* C31 amended: last_received_data is written by the listener, which stores
\* every line it reads, and by _send_and_listen, which sets it to None right
\* before it writes a command; no other step of the command-sending thread
\* writes it.
C31_ListenerAndClear ==
    [][ /\ last_received_data' # last_received_data
             => \/ ListenerStores
                \/ cmd_pc = "begin" /\ cmd_pc' = "write"
        /\ (cmd_pc = "begin" /\ cmd_pc' = "write") => last_received_data' = None
        /\ (cmd_pc' # cmd_pc /\ cmd_pc # "begin")
             => last_received_data' = last_received_data
      ]_vars

\* C31 witness: send_config is about to write its second command; the "Done"
\* that acknowledged the first one has been cleared from the slot
C31_Witness ==
    /\ op.name = "config"
    /\ cmd_pc = "write"
    /\ Len(written) = 1
    /\ last_received_data = None

\* C35: no acknowledgement leaks between commands: whenever
\* _send_and_listen returns True for a command, the peer sent a line "Done"
\* after that command was written; a "Done" that the peer sent before, for an
\* earlier command that timed out, is never taken as the acknowledgement.
C35_NoAckLeak ==
    (cmd_pc = "ret" /\ written # <<>> /\ returned)
    => \E k \in 1..Len(answer) : answer[k].line = "Done" /\ answer[k].at >= 0

\* ---------------------------------------------------------- RadarCLI.close
\* close() writes sensorStop in this step
CloseWrites == op.name = "close" /\ Len(written') > Len(written)

\* close() waits for the reply to the sensorStop it wrote
CloseWaits == op.name = "close" /\ cmd_pc \in {"settle", "poll"}

\* C30 as stated: in RadarCLI.close, sensorStop is written before the port
\* is released and before the listener is stopped, so the listener is still
\* running while close waits for the acknowledgement.
C30_Original ==
    [][ /\ CloseWrites => (is_open /\ monitor_running /\ monitor_alive)
        /\ CloseWaits => (monitor_running /\ monitor_alive)
      ]_vars

\* C30 amended: close stops the listener and waits for it to end before it
\* writes sensorStop; the command is written to the open port with the
\* listener stopped, no reply to it is taken in while close waits, and the
\* port is released only after _send_and_listen has returned.
C30_ListenerStoppedFirst ==
    [][ /\ CloseWrites
             => (is_open /\ ser # None /\ ~monitor_running /\ ~monitor_alive)
        /\ CloseWaits
             => (~monitor_running /\ ~monitor_alive /\ is_open
                 /\ last_received_data' = None)
        /\ (is_open /\ ~is_open') => (op.name = "close" /\ cmd_pc = "ret")
      ]_vars

\* C30 witness: close has written sensorStop and polls for the reply; the
\* reply of the peer is waiting in the port and the listener has ended
C30_Witness ==
    /\ op.name = "close"
    /\ cmd_pc = "poll"
    /\ written # <<>>
    /\ is_open
    /\ ~monitor_alive
    /\ in_waiting # <<>>
    /\ last_received_data = None

\* ------------------------------------------------------- the pending map
\* the frame ids the completions of the latest place call carry
CompletedIds(cs) == { cs[c].frame_id : c \in 1..Len(cs) }

\* C29 as stated: after every call of _place_data_packet_in_frame_buffer no
\* entry of frame_buff is fully filled; a PartialFrame is created only by a
\* packet that touches its frame id while the id is absent, and leaves the
\* map only in the call that sets its last missing sample, which emits it as
\* the completed frame, or by the timeout eviction, which does not emit it.
C29_Original ==
    [][ /\ \A k \in DOMAIN frame_buff' : ~AllFilled(frame_buff'[k])
        /\ \A k \in DOMAIN frame_buff' \ DOMAIN frame_buff :
             /\ pc = "place"
             /\ PktRange(pkt) \cap FrameRange(k) # {}
        /\ \A k \in DOMAIN frame_buff \ DOMAIN frame_buff' :
             \/ /\ pc = "place"
                /\ k \in CompletedIds(completions')
                /\ ret' # <<>>
                /\ ret'[1].frame_id = k
             \/ /\ pc = "evict"
                /\ k \in dropped_frames'
                /\ ret' = ret
                /\ ret[1].frame_id # k
      ]_vars

\* C29 amended: after every call of _place_data_packet_in_frame_buffer no
\* entry of frame_buff is fully filled; a PartialFrame is created only by a
\* packet that touches its frame id while the id is absent, and leaves the
\* map only in the call that sets its last missing sample or by the timeout
\* eviction; the call emits the frame it completed last, a frame it completed
\* before that one is emitted by nobody, and eviction emits nothing.
C29_PendingMap ==
    [][ /\ \A k \in DOMAIN frame_buff' : ~AllFilled(frame_buff'[k])
        /\ \A k \in DOMAIN frame_buff' \ DOMAIN frame_buff :
             /\ pc = "place"
             /\ PktRange(pkt) \cap FrameRange(k) # {}
        /\ \A k \in DOMAIN frame_buff \ DOMAIN frame_buff' :
             \/ /\ pc = "place"
                /\ k \in CompletedIds(completions')
                /\ ret' # <<>>
                /\ ret'[1].frame_id = k
                     <=> k = completions'[Len(completions')].frame_id
             \/ /\ pc = "evict"
                /\ k \in dropped_frames'
                /\ ret' = ret
                /\ ret[1].frame_id # k
        /\ (pc = "place" /\ pc' # "place")
             => \A c \in 1..Len(completions') :
                  /\ completions'[c].frame_id \notin DOMAIN frame_buff'
                  /\ \A i \in 1..uint16_in_frame :
                       completions'[c].data[i] # Uninit
      ]_vars

\* C29 witness: a PartialFrame that was pending since an earlier call left
\* the map by completion in a call that returned another frame
C29_Witness ==
    /\ pc = "evict"
    /\ Len(completions) = 2
    /\ completions[1].first_seen < completions[1].done_at
    /\ ret[1].frame_id = completions[2].frame_id
    /\ completions[1].frame_id \notin DOMAIN frame_buff

\* ---------------------------------------------------- the eviction pass
\* C33: _delete_incomplete_frames(timeout) removes exactly the PartialFrames
\* whose first_seen predates now - timeout, returns exactly their ids, emits
\* none of them and leaves every other PartialFrame as it was.
C33_ExactEviction ==
    [][ (pc = "evict" /\ pc' = "returned")
        => /\ dropped_frames'
                = { k \in DOMAIN frame_buff :
                      frame_buff[k].first_seen < now - TimeoutIncompleteFrames }
           /\ DOMAIN frame_buff' = DOMAIN frame_buff \ dropped_frames'
           /\ \A k \in DOMAIN frame_buff' : frame_buff'[k] = frame_buff[k]
           /\ ret' = ret
           /\ completions' = completions
           /\ \A k \in dropped_frames' : ret[1].frame_id # k
      ]_vars

\* C33 witness: the pass removed a PartialFrame older than the timeout and
\* read() returned the frame completed before the pass
C33_Witness ==
    /\ pc = "returned"
    /\ ret # <<>>
    /\ \E k \in dropped_frames :
         /\ k \notin DOMAIN frame_buff
         /\ now - evicted[k] > TimeoutIncompleteFrames

\* ------------------------------------------------- the cells a packet sets
\* the PartialFrame of frame id k a place call starts from
Before(k) == IF k \in DOMAIN frame_buff THEN frame_buff[k] ELSE NewPartialFrame

\* the stream offset of cell i (1-based) of frame k
CellOffset(k, i) == k * uint16_in_frame + i - 1

\* C39: placing a packet changes only the data and filled cells of the sample
\* range the packet covers: every other cell and every other PartialFrame
\* stay as they were, as does first_seen of a PartialFrame that existed; a
\* frame the call completes is returned as a copy and leaves the map, so that
\* no later packet writes to it.
C39_OnlyCoveredCells ==
    [][ /\ (pc = "place" /\ pc' # "place")
           => /\ \A k \in DOMAIN frame_buff' :
                   /\ frame_buff'[k].first_seen = Before(k).first_seen
                   /\ \A i \in 1..uint16_in_frame :
                        CellOffset(k, i) \notin PktRange(pkt)
                        => /\ frame_buff'[k].data[i] = Before(k).data[i]
                           /\ frame_buff'[k].filled[i] = Before(k).filled[i]
              /\ \A c \in 1..Len(completions') :
                   LET k == completions'[c].frame_id
                   IN  /\ k \notin DOMAIN frame_buff'
                       /\ completions'[c].first_seen = Before(k).first_seen
                       /\ \A i \in 1..uint16_in_frame :
                            CellOffset(k, i) \notin PktRange(pkt)
                            => completions'[c].data[i] = Before(k).data[i]
              /\ \A k \in DOMAIN frame_buff \ DOMAIN frame_buff' :
                   k \in CompletedIds(completions')
        /\ (pc # "place" /\ ret # <<>>) => ret' \in {ret, <<>>}
        /\ pc \notin {"place", "evict"} => frame_buff' = frame_buff
      ]_vars

\* C39 witness: a packet was placed into a PartialFrame that existed before
\* and stays pending with its earlier first_seen, while another PartialFrame
\* with a filled cell is pending too
C39_Witness ==
    /\ pc = "recv"
    /\ Len(chunks) = 1
    /\ chunks[1].frame_id \in DOMAIN frame_buff
    /\ frame_buff[chunks[1].frame_id].first_seen < now
    /\ \E k \in DOMAIN frame_buff \ {chunks[1].frame_id} :
         AnyFilled(frame_buff[k])

\* ------------------------------------------------- frames after the stop
\* C40: under every interleaving of stop_acquisition with the capture loop,
\* at most one decoded frame is put on the output queue after the stop
\* signal was set, and none after the capture thread has terminated: the
\* queue grows only where run() handles a frame read() returned, by one frame
\* at most; a loop that handled a frame while the signal was set goes to its
\* loop test or ends, the loop test ends the loop while the signal is set,
\* and a loop that has ended takes no further step.
C40_AtMostOneAfterStop ==
    [][ /\ out_queue' # out_queue
           => /\ pc = "returned"
              /\ Len(out_queue') = Len(out_queue) + 1
              /\ SubSeq(out_queue', 1, Len(out_queue)) = out_queue
        /\ (pc = "returned" /\ pc' # pc /\ ~running) => pc' \in {"loop", "done"}
        /\ (pc = "loop" /\ pc' # pc /\ ~running) => pc' = "done"
        /\ pc = "done" => (pc' = "done" /\ out_queue' = out_queue)
      ]_vars

\* C40 witness: stop_acquisition set the stop signal while the first read of
\* the capture loop was in progress, and the read has now returned a frame
\* to the loop
C40_Witness ==
    /\ pc = "returned"
    /\ thread = "started"
    /\ ~running
    /\ call.op = "stop"
    /\ ret # <<>>
    /\ raw_frames = <<>>

\* ----------------------------------------------------- resource lifecycle
\* the serial connections, each with its listener thread, that are open
OpenPorts == abandoned + (IF ser_open THEN 1 ELSE 0)

\* C37: across every sequence of start_acquisition / stop_acquisition / close
\* calls, also when hardware initialisation fails part-way, at most one
\* serial connection with its listener and at most one pair of sockets is
\* open at a time, and after close() every port, listener and socket the
\* orchestrator ever opened has been released.
C37_ResourcesReleased ==
    /\ OpenPorts <= 1
    /\ call.op = "close" => (OpenPorts = 0 /\ ~sockets_open)

\* ------------------------------------------------- _unswizzle_rdif_data
\* the most 4-word blocks in the raw data given to _unswizzle_rdif_data
MaxBlocks == 2

\* blocks [W0, W1, W2, W3] of uint16 words: every bit clear, every bit set,
\* one bit of one word set, one bit of one word clear
Blocks ==
    { [j \in 1..4 |-> 0], [j \in 1..4 |-> 65535] }
    \cup { [j \in 1..4 |-> IF j = w THEN 2 ^ b ELSE 0] :
             w \in 1..4, b \in 0..15 }
    \cup { [j \in 1..4 |-> IF j = w THEN 65535 - 2 ^ b ELSE 65535] :
             w \in 1..4, b \in 0..15 }

\* raw data of whole blocks: one block of Blocks among blocks of equal words
BlockInputs ==
    UNION { { [i \in 1..(4 * nb) |->
                 IF ((i - 1) \div 4) + 1 = h
                 THEN hot[((i - 1) % 4) + 1]
                 ELSE fill[((i - 1) \div 4) + 1]] :
               h \in 1..nb, hot \in Blocks, fill \in [1..nb -> {0, 65535}] } :
            nb \in 1..MaxBlocks }

\* the raw_data arguments: empty, whole blocks, and whole blocks cut short
RawInputs ==
    { <<>> } \cup { SubSeq(r, 1, Len(r) - cut) : r \in BlockInputs, cut \in 0..3 }

\* a call of _unswizzle_rdif_data: the AssertionError, or the output array
UnswizzleCall(raw_data) ==
    IF UnswizzleRaises(raw_data)
    THEN [raised |-> TRUE, data |-> <<>>]
    ELSE [raised |-> FALSE, data |-> UnswizzleRdifData(raw_data)]

\* XWRL6432AdcReader._unswizzle_rdif_data(raw_data)
ApplyUnswizzle ==
    /\ applied.name = "none"
    /\ \E raw_data \in RawInputs :
         applied' = [name |-> "_unswizzle_rdif_data", arg |-> raw_data,
                     out |-> UnswizzleCall(raw_data)]
    /\ UNCHANGED fn_rest

\* _unswizzle_rdif_data was called
UnswizzleApplied == applied.name = "_unswizzle_rdif_data"

\* bit b of the word w
BitOf(w, b) == (w \div (2 ^ b)) % 2

\* C23: for every block [W0, W1, W2, W3] of the input, _unswizzle_rdif_data
\* outputs [S0, S1, S2, S3] where bit 4k+j of Si is bit s_i+k of Wj with
\* s_i = 9, 6, 3, 0 (k in 0..2, j in 0..3); bits 12-15 of every output sample
\* are 0, bits 12-15 of the input words do not matter, and the output is as
\* long as the input.
C23_BitMapping ==
    (UnswizzleApplied /\ ~applied.out.raised)
    => /\ Len(applied.out.data) = Len(applied.arg)
       /\ \A blk \in 0..((Len(applied.arg) \div 4) - 1) : \A i \in 0..3 :
            LET S == applied.out.data[4 * blk + i + 1]
            IN  /\ \A k \in 0..2 : \A j \in 0..3 :
                     BitOf(S, 4 * k + j)
                       = BitOf(applied.arg[4 * blk + j + 1], (9 - 3 * i) + k)
                /\ \A b \in 12..15 : BitOf(S, b) = 0
       /\ applied.out.data
            = UnswizzleCall([n \in 1..Len(applied.arg) |->
                               applied.arg[n] % 4096]).data

\* C23 witness: two blocks were unswizzled, an input word has bits above bit
\* 11 set, and the two blocks give different samples, one of them with a
\* single bit set
C23_Witness ==
    /\ UnswizzleApplied
    /\ ~applied.out.raised
    /\ Len(applied.arg) = 8
    /\ \E n \in 1..8 : applied.arg[n] >= 4096
    /\ applied.out.data[1] = 4095
    /\ applied.out.data[6] = 512

\* C25 as stated: _unswizzle_rdif_data fails, producing no output, for every
\* input whose length is not a multiple of 4, and accepts every input whose
\* length is a multiple of 4.
C25_Original ==
    UnswizzleApplied
    => /\ Len(applied.arg) % 4 # 0
            => (applied.out.raised /\ applied.out.data = <<>>)
       /\ Len(applied.arg) % 4 = 0 => ~applied.out.raised

\* C25 amended: _unswizzle_rdif_data fails, producing no output, for the
\* empty input and for every input whose length is not a multiple of 4, and
\* accepts every input whose length is a positive multiple of 4.
C25_RejectsEmptyToo ==
    UnswizzleApplied
    => /\ (Len(applied.arg) = 0 \/ Len(applied.arg) % 4 # 0)
            => (applied.out.raised /\ applied.out.data = <<>>)
       /\ (Len(applied.arg) > 0 /\ Len(applied.arg) % 4 = 0)
            => (~applied.out.raised /\ Len(applied.out.data) = Len(applied.arg))

\* C25 witness: the empty input was given and was rejected
C25_Witness ==
    /\ UnswizzleApplied
    /\ applied.arg = <<>>
    /\ applied.out.raised

\* blocks [S0, S1, S2, S3] of 12-bit samples: every bit clear, every bit
\* set, one bit of one sample set, one bit of one sample clear, four
\* different samples
SampleBlocks ==
    { [i \in 1..4 |-> 0], [i \in 1..4 |-> 4095], <<1365, 2730, 291, 3549>> }
    \cup { [i \in 1..4 |-> IF i = w THEN 2 ^ b ELSE 0] :
             w \in 1..4, b \in 0..11 }
    \cup { [i \in 1..4 |-> IF i = w THEN 4095 - 2 ^ b ELSE 4095] :
             w \in 1..4, b \in 0..11 }

\* the sample sequences the sensor streams: one block of SampleBlocks among
\* blocks of equal samples
SampleSeqs ==
    UNION { { [i \in 1..(4 * nb) |->
                 IF ((i - 1) \div 4) + 1 = h
                 THEN hot[((i - 1) % 4) + 1]
                 ELSE fill[((i - 1) \div 4) + 1]] :
               h \in 1..nb, hot \in SampleBlocks, fill \in [1..nb -> {0, 4095}] } :
            nb \in 1..MaxBlocks }

\* word j (0..3) of the RDIF block of the samples S, by the table
\*   S0 = w3_b11 | w2_b11 | w1_b11 | w0_b11 | w3_b10 | ... | w0_b09
\*   ...
\*   S3 = w3_b02 | w2_b02 | w1_b02 | w0_b02 | w3_b01 | ... | w0_b00
\* read from the samples to the words: bit 4k+j of Si is bit (9 - 3i) + k of Wj
SwizzleWord(S, j) ==
    LET Term(n) == Bit(S[(n \div 3) + 1], 4 * (n % 3) + j)
                     * (2 ^ ((9 - 3 * (n \div 3)) + (n % 3)))
    IN  Term(0) + Term(1) + Term(2) + Term(3) + Term(4) + Term(5)
          + Term(6) + Term(7) + Term(8) + Term(9) + Term(10) + Term(11)

\* the RDIF stream of a sequence of samples, block by block
Swizzle(samples) ==
    [n \in 1..Len(samples) |->
        LET block == (n - 1) \div 4
            S     == [i \in 1..4 |-> samples[4 * block + i]]
        IN  SwizzleWord(S, (n - 1) % 4)]

\* _unswizzle_rdif_data on the RDIF stream of the samples
ApplyUnswizzleOfSwizzled ==
    /\ applied.name = "none"
    /\ \E samples \in SampleSeqs :
         applied' = [name |-> "unswizzle(swizzle)", arg |-> samples,
                     out |-> UnswizzleCall(Swizzle(samples))]
    /\ UNCHANGED fn_rest

\* C24: unswizzle(swizzle(samples)) = samples for every sequence of 12-bit
\* samples whose length is a positive multiple of 4, swizzle being the inverse
\* of the documented bit mapping.
C24_RoundTrip ==
    ( /\ applied.name = "unswizzle(swizzle)"
      /\ Len(applied.arg) > 0
      /\ Len(applied.arg) % 4 = 0
      /\ \A n \in 1..Len(applied.arg) : applied.arg[n] \in 0..4095 )
    => /\ ~applied.out.raised
       /\ applied.out.data = applied.arg

\* C24 witness: two blocks of samples went through the round trip, the
\* second one of four different samples
C24_Witness ==
    /\ applied.name = "unswizzle(swizzle)"
    /\ ~applied.out.raised
    /\ Len(applied.arg) = 8
    /\ SubSeq(applied.arg, 5, 8) = <<1365, 2730, 291, 3549>>
    /\ applied.arg[1] = 4095

\* --------------------------------------------------- _interpret_raw_data
\* the most chirp loops, transmit antennas and receive antennas of a
\* configuration given to the decoder
MaxLoops == 2

MaxTx == 2

MaxRx == 3

\* self.num_chirp_loops, self.num_tx_ant, self.num_rx_ant, self.num_adc_samples
DecodeConfigs ==
    [num_chirp_loops : 1..MaxLoops, num_tx_ant : 1..MaxTx,
     num_rx_ant : 1..MaxRx, num_adc_samples : {1, 2, 4}]

\* the uint16 words of one frame of the configuration
WordsInFrame(cfg) ==
    cfg.num_chirp_loops * cfg.num_tx_ant * cfg.num_adc_samples * cfg.num_rx_ant

\* the first sample of a stream of consecutive samples
RampBases == {0, 2040, 4090}

\* the frames of n words given to the decoder: one block of Blocks repeated,
\* and the RDIF stream of consecutive 12-bit samples
FrameInputs(n) ==
    { [i \in 1..n |-> blk[((i - 1) % 4) + 1]] : blk \in Blocks }
    \cup { SubSeq(Swizzle([i \in 1..(4 * ((n + 3) \div 4)) |-> (base + i) % 4096]),
                  1, n) : base \in RampBases }

\* a call of _interpret_raw_data: an exception, or the decoded frame
InterpretCall(raw_data, cfg) ==
    IF InterpretRaises(raw_data, cfg)
    THEN [raised |-> TRUE, data |-> <<>>]
    ELSE [raised |-> FALSE, data |-> InterpretRawData(raw_data, cfg)]

\* XWRL6432AdcReader._interpret_raw_data(raw_data) on a reader of the
\* configuration cfg
ApplyInterpret ==
    /\ applied.name = "none"
    /\ \E cfg \in DecodeConfigs : \E raw_data \in FrameInputs(WordsInFrame(cfg)) :
         applied' = [name |-> "_interpret_raw_data",
                     arg |-> [raw_data |-> raw_data, cfg |-> cfg],
                     out |-> InterpretCall(raw_data, cfg)]
    /\ UNCHANGED fn_rest

\* _interpret_raw_data returned a frame
Decoded == applied.name = "_interpret_raw_data" /\ ~applied.out.raised

\* the unswizzled flat sample at the 0-based index n
Flat(n) == UnswizzleCall(applied.arg.raw_data).data[n + 1]

\* the 0-based flat index of chirp loop l, transmitter tx, receiver rx, sample s
FlatIndex(cfg, l, tx, rx, s) ==
    ((l * cfg.num_tx_ant + tx) * cfg.num_adc_samples + s) * cfg.num_rx_ant + rx

\* C26: the decoder maps every unswizzled value v of 0..4095 to v when
\* v <= 2047 and to v - 4096 when v > 2047, so every decoded sample lies in
\* -2048..2047; the conversion applies to the reshaped frame.
C26_SignedConversion ==
    Decoded
    => LET cfg == applied.arg.cfg
       IN  \A l \in 0..(cfg.num_chirp_loops - 1) : \A tx \in 0..(cfg.num_tx_ant - 1) :
           \A rx \in 0..(cfg.num_rx_ant - 1) : \A s \in 0..(cfg.num_adc_samples - 1) :
             LET v == Flat(FlatIndex(cfg, l, tx, rx, s))
                 d == applied.out.data[l + 1][tx * cfg.num_rx_ant + rx + 1][s + 1]
             IN  /\ v \in 0..4095
                 /\ v <= 2047 => d = v
                 /\ v > 2047 => d = v - 4096
                 /\ d \in (-2048)..2047

\* C26 witness: a decoded frame holds 2047 next to -2048
C26_Witness ==
    /\ Decoded
    /\ \E l \in 1..Len(applied.out.data) : \E c \in 1..Len(applied.out.data[l]) :
       \E s \in 1..(Len(applied.out.data[l][c]) - 1) :
         /\ applied.out.data[l][c][s] = 2047
         /\ applied.out.data[l][c][s + 1] = -2048

\* C27: for every configuration (L chirp loops, T tx, R rx, N samples) the
\* decoded frame has shape [L, T*R, N] and its element [l][tx*R + rx][s] is
\* the unswizzled flat sample at index ((l*T + tx)*N + s)*R + rx before the
\* signed conversion: channels are ordered tx-major, rx-minor, and every
\* flat sample appears exactly once.
C27_FrameLayout ==
    Decoded
    => LET cfg == applied.arg.cfg
           L == cfg.num_chirp_loops
           T == cfg.num_tx_ant
           R == cfg.num_rx_ant
           N == cfg.num_adc_samples
           Cells == (0..(L - 1)) \X (0..(T - 1)) \X (0..(R - 1)) \X (0..(N - 1))
           Idx(c) == ((c[1] * T + c[2]) * N + c[4]) * R + c[3]
       IN  /\ Len(applied.out.data) = L
           /\ \A l \in 1..L :
                /\ Len(applied.out.data[l]) = T * R
                /\ \A c \in 1..(T * R) : Len(applied.out.data[l][c]) = N
           /\ \A c \in Cells :
                (applied.out.data[c[1] + 1][c[2] * R + c[3] + 1][c[4] + 1] + 4096) % 4096
                  = Flat(Idx(c))
           /\ { Idx(c) : c \in Cells } = 0..(Len(applied.arg.raw_data) - 1)
           /\ \A c1, c2 \in Cells : Idx(c1) = Idx(c2) => c1 = c2

\* C27 witness: a frame of 2 chirp loops, 2 transmitters, 3 receivers and 2
\* samples was decoded from 24 different samples
C27_Witness ==
    /\ Decoded
    /\ applied.arg.cfg = [num_chirp_loops |-> 2, num_tx_ant |-> 2,
                          num_rx_ant |-> 3, num_adc_samples |-> 2]
    /\ \A m, n \in 0..23 : m # n => Flat(m) # Flat(n)

\* ------------------------------------- _place_data_packet_in_frame_buffer
\* the arguments of DCA1000(...) the data model allows: no field negative,
\* num_tx_ant positive
DcaConfigs ==
    [num_chirp_loops : {0, 1}, num_tx_ant : {1, 2}, num_rx_ant : {0, 1},
     num_adc_samples : {0, 2, 3}]

\* the byte_count fields of the datagrams given to the engine, odd ones too
ByteCounts == 0..7

\* the pending maps a call finds: empty, or (in a frame of two words or more)
\* frame 0 with its first word filled
PendingMaps ==
    { << >> }
    \cup (IF uint16_in_frame >= 2
          THEN { [k \in {0} |-> WriteChunk(NewPartialFrame, 0, 1, <<1>>, 0)] }
          ELSE {})

\* DCA1000.__init__: self.uint16_in_frame = self.bytes_in_frame // 2
ConstructDca ==
    /\ applied.name = "none"
    /\ \E cfg \in DcaConfigs :
         /\ uint16_in_frame' = BytesInFrame(cfg) \div 2
         /\ applied' = [name |-> "DCA1000", arg |-> cfg, out |-> <<>>]
    /\ UNCHANGED <<frame_period, frame_buff, now, pkt, ret, dropped_frames,
                   completions, chunks, sent, clean, evicted>>
    /\ UNCHANGED <<pc, orch_vars, cli_vars, rec_vars>>

\* frame_id = offset // self.uint16_in_frame raises ZeroDivisionError in the
\* first turn of the loop
PlaceRaises(payload) == Len(payload) > 0 /\ uint16_in_frame = 0

\* a call of _place_data_packet_in_frame_buffer: the exception, or the
\* result, the chunks written and the pending map left behind
PlaceCall(buff, byte_count, payload) ==
    IF PlaceRaises(payload)
    THEN [raised |-> TRUE, completed |-> <<>>, chunks |-> <<>>, buff |-> buff]
    ELSE LET r == PlaceDataPacketInFrameBuffer(buff, byte_count, payload)
         IN  [raised |-> FALSE, completed |-> r.completed, chunks |-> r.chunks,
              buff |-> r.buff]

\* dca._place_data_packet_in_frame_buffer(byte_count, payload) on the DCA1000
\* just constructed
ApplyPlace ==
    /\ applied.name = "DCA1000"
    /\ \E buff \in PendingMaps, byte_count \in ByteCounts,
          payload \in UNION { [1..n -> Samples] : n \in 0..MaxPayload } :
         LET r == PlaceCall(buff, byte_count, payload)
         IN  /\ applied' = [name |-> "_place_data_packet_in_frame_buffer",
                            arg |-> [byte_count |-> byte_count, payload |-> payload,
                                     buff |-> buff],
                            out |-> r]
             /\ frame_buff' = r.buff
    /\ UNCHANGED <<uint16_in_frame, frame_period, now, pkt, ret, dropped_frames,
                   completions, chunks, sent, clean, evicted>>
    /\ UNCHANGED <<pc, orch_vars, cli_vars, rec_vars>>

\* C32: the reassembly engine never raises, for any byte offset and payload
\* under any configuration with no negative field and num_tx_ant > 0: every
\* chunk's frame id and position come from the offset alone, and the drain
\* loop ends because every turn takes at least one word of what remains.
C32_NeverRaises ==
    applied.name = "_place_data_packet_in_frame_buffer"
    => /\ ~applied.out.raised
       /\ SumSizes(applied.out.chunks, Len(applied.out.chunks))
            = Len(applied.arg.payload)
       /\ \A i \in 1..Len(applied.out.chunks) :
            LET c   == applied.out.chunks[i]
                off == (applied.arg.byte_count \div 2) + c.idx
            IN  /\ c.size >= 1
                /\ c.frame_id = off \div uint16_in_frame
                /\ c.start = off % uint16_in_frame

\* ----------------------------------------------------- _parse_radar_config
\* the values of the three directives of a configuration file, as the decimal
\* digits of the tokens line.split() yields: ChannelCfg <rxMask> <txMask> ..,
\* chirpComnCfg <..> <..> <..> <numAdcSamples> .., frameCfg <chirpsPerBurst>
\* <..> <..> <burstsPerFrame> ..; has_frame_cfg tells whether the file has a
\* frameCfg line at all
RadarCfgFiles ==
    [rx_mask : {<<0>>, <<5>>, <<7>>}, tx_mask : {<<0>>, <<1>>, <<3>>},
     num_adc_samples : {<<2>>, <<6, 4>>}, chirps_per_burst : {<<1>>, <<2>>},
     bursts_per_frame : {<<1>>, <<3>>, <<1, 0>>}, has_frame_cfg : BOOLEAN]

\* int(token) of a token of decimal digits
RECURSIVE IntOf(_)
IntOf(digits) ==
    IF digits = <<>> THEN 0
    ELSE 10 * IntOf(SubSeq(digits, 1, Len(digits) - 1)) + digits[Len(digits)]

\* bin(n).count('1')
RECURSIVE Popcount(_)
Popcount(n) == IF n = 0 THEN 0 ELSE (n % 2) + Popcount(n \div 2)

\* Python values by type
IntVal(n) == [type |-> "int", val |-> n]
StrVal(s) == [type |-> "str", val |-> s]

\* s repeated n times
RECURSIVE Repeated(_, _)
Repeated(s, n) == IF n <= 0 THEN <<>> ELSE s \o Repeated(s, n - 1)

\* a * b: the product of two ints; int * str repeats the string
Mul(a, b) ==
    IF a.type = "int" /\ b.type = "int" THEN IntVal(a.val * b.val)
    ELSE IF a.type = "int" THEN StrVal(Repeated(b.val, a.val))
    ELSE StrVal(Repeated(a.val, b.val))

\* a // b: the quotient of two ints; TypeError for a str operand
FloorDiv(a, b) ==
    IF a.type = "int" /\ b.type = "int" THEN IntVal(a.val \div b.val)
    ELSE [type |-> "TypeError", val |-> <<>>]

\* _parse_radar_config(config_path)
ParseRadarConfig(file) ==
    LET num_rx_ant           == Popcount(IntOf(file.rx_mask))
        num_tx_ant           == Popcount(IntOf(file.tx_mask))
        num_adc_samples      == IntOf(file.num_adc_samples)
        num_chirps_per_burst == IF file.has_frame_cfg
                                THEN IntVal(IntOf(file.chirps_per_burst))
                                ELSE IntVal(0)
        num_bursts_per_frame == IF file.has_frame_cfg
                                THEN StrVal(file.bursts_per_frame)
                                ELSE IntVal(0)
    IN  [chirps_per_frame |-> Mul(num_chirps_per_burst, num_bursts_per_frame),
         num_tx_ant       |-> num_tx_ant,
         num_rx_ant       |-> num_rx_ant,
         num_adc_samples  |-> num_adc_samples]

\* XWRL6432AdcReader.__init__ from the parse on: the fields it sets and the
\* exception it re-raises
ReaderInit(file) ==
    LET p == ParseRadarConfig(file)
        q == FloorDiv(p.chirps_per_frame, IntVal(p.num_tx_ant))
    IN  IF p.num_tx_ant <= 0
        THEN [parsed |-> p, raised |-> "ValueError", num_chirp_loops |-> None]
        ELSE IF q.type # "int"
        THEN [parsed |-> p, raised |-> q.type, num_chirp_loops |-> None]
        ELSE [parsed |-> p, raised |-> "none", num_chirp_loops |-> q.val]

\* XWRL6432AdcReader(radar_serial_port, radar_cfg_path, out_queue) on a file
\* with the three directives
ApplyReaderInit ==
    /\ applied.name = "none"
    /\ \E file \in RadarCfgFiles :
         applied' = [name |-> "XWRL6432AdcReader", arg |-> file,
                     out |-> ReaderInit(file)]
    /\ UNCHANGED fn_rest

\* C34: for a file with the three directives the parsed antenna counts are
\* the population counts of the masks, num_adc_samples is the fourth
\* chirpComnCfg value and num_chirps_per_frame is the integer product
\* chirpsPerBurst x burstsPerFrame; with num_tx_ant > 0 the constructor
\* succeeds with num_chirp_loops = num_chirps_per_frame div num_tx_ant.
C34_ParsedConfig ==
    (applied.name = "XWRL6432AdcReader" /\ applied.arg.has_frame_cfg)
    => LET file == applied.arg
           p    == applied.out.parsed
           prod == IntOf(file.chirps_per_burst) * IntOf(file.bursts_per_frame)
       IN  /\ p.num_rx_ant = Popcount(IntOf(file.rx_mask))
           /\ p.num_tx_ant = Popcount(IntOf(file.tx_mask))
           /\ p.num_adc_samples = IntOf(file.num_adc_samples)
           /\ p.chirps_per_frame = IntVal(prod)
           /\ p.num_tx_ant > 0
              => /\ applied.out.raised = "none"
                 /\ applied.out.num_chirp_loops = prod \div p.num_tx_ant

\* the arguments _init_hardware passes to DCA1000(...) after a constructor
\* call that succeeded
DcaArgs(out) ==
    [num_chirp_loops |-> out.num_chirp_loops, num_rx_ant |-> out.parsed.num_rx_ant,
     num_tx_ant |-> out.parsed.num_tx_ant,
     num_adc_samples |-> out.parsed.num_adc_samples]

\* C36: for every configuration the orchestrator can construct, the frame
\* length of the reassembly engine, uint16_in_frame, equals num_chirp_loops *
\* num_tx_ant * num_adc_samples * num_rx_ant, the element count of the
\* decoder's reshape, and is a positive multiple of 4, the lengths the
\* decoder accepts.
C36_FrameLengthAccepted ==
    (applied.name = "XWRL6432AdcReader" /\ applied.out.raised = "none")
    => LET cfg == DcaArgs(applied.out)
           len == BytesInFrame(cfg) \div 2
       IN  /\ len = cfg.num_chirp_loops * cfg.num_tx_ant
                      * cfg.num_adc_samples * cfg.num_rx_ant
           /\ len > 0
           /\ len % 4 = 0

\* functions called on their own, on arguments drawn from bounded sets, one
\* call in a behaviour
FnNext ==
    \/ ApplyCommand
    \/ ApplyReadDataPacket
    \/ ApplyUnswizzle
    \/ ApplyUnswizzleOfSwizzled
    \/ ApplyInterpret
    \/ ApplyReaderInit
    \/ ConstructDca
    \/ ApplyPlace

\* one reader of one configuration, nothing called yet
FnStart == OrchInit /\ radar_cfg.num_adc_samples = 2 /\ frame_period = 1

FnSpec == FnStart /\ [][FnNext]_vars

\* ------------------------------------------------------------ ADCRecorder
\* the most frames the producer puts into the recorder's input queue
MaxQueued == 3

rec_rest == <<reasm_vars, pc, orch_vars, cli_vars, fn_vars>>

\* frames are numbered 1, 2, ... in the order they are put into the queue

\* ADCRecorder(input_queue, num_frames): ValueError for a negative num_frames
Construct ==
    /\ rec_thread = "none"
    /\ app_pc = "idle"
    /\ \E num_frames \in (-1)..MaxRecord :
         IF num_frames < 0
         THEN /\ app_ret' = "ValueError"
              /\ UNCHANGED <<num_frames_to_record, rec_thread>>
         ELSE /\ num_frames_to_record' = num_frames
              /\ rec_thread' = "initial"
              /\ app_ret' = "none"
    /\ UNCHANGED <<input_queue, recorded_frames, frames_recorded_count,
                   rec_running, rec_event, rec_pc, rec_local, app_pc, produced>>
    /\ UNCHANGED rec_rest

\* the producer: input_queue.put(frame)
Produce ==
    /\ produced < MaxQueued
    /\ produced' = produced + 1
    /\ input_queue' = Append(input_queue, produced + 1)
    /\ UNCHANGED <<num_frames_to_record, recorded_frames, frames_recorded_count,
                   rec_running, rec_event, rec_thread, rec_pc, rec_local,
                   app_pc, app_ret>>
    /\ UNCHANGED rec_rest

\* start_recording: if self._running: return False
StartRecording ==
    /\ rec_thread # "none"
    /\ app_pc = "idle"
    /\ IF rec_running
       THEN app_ret' = "False" /\ app_pc' = app_pc
       ELSE app_ret' = "none" /\ app_pc' = "sr_frames"
    /\ UNCHANGED <<input_queue, num_frames_to_record, recorded_frames,
                   frames_recorded_count, rec_running, rec_event, rec_thread,
                   rec_pc, rec_local, produced>>
    /\ UNCHANGED rec_rest

\* start_recording: self.recorded_frames = []
SrResetFrames ==
    /\ app_pc = "sr_frames"
    /\ recorded_frames' = <<>>
    /\ app_pc' = "sr_count"
    /\ UNCHANGED <<input_queue, num_frames_to_record, frames_recorded_count,
                   rec_running, rec_event, rec_thread, rec_pc, rec_local,
                   app_ret, produced>>
    /\ UNCHANGED rec_rest

\* start_recording: self._frames_recorded_count = 0
SrResetCount ==
    /\ app_pc = "sr_count"
    /\ frames_recorded_count' = 0
    /\ app_pc' = "sr_clear"
    /\ UNCHANGED <<input_queue, num_frames_to_record, recorded_frames,
                   rec_running, rec_event, rec_thread, rec_pc, rec_local,
                   app_ret, produced>>
    /\ UNCHANGED rec_rest

\* start_recording: self.recording_task_complete_event.clear()
SrClearEvent ==
    /\ app_pc = "sr_clear"
    /\ rec_event' = FALSE
    /\ app_pc' = "sr_running"
    /\ UNCHANGED <<input_queue, num_frames_to_record, recorded_frames,
                   frames_recorded_count, rec_running, rec_thread, rec_pc,
                   rec_local, app_ret, produced>>
    /\ UNCHANGED rec_rest

\* start_recording: self._running = True
SrSetRunning ==
    /\ app_pc = "sr_running"
    /\ rec_running' = TRUE
    /\ app_pc' = "sr_start"
    /\ UNCHANGED <<input_queue, num_frames_to_record, recorded_frames,
                   frames_recorded_count, rec_event, rec_thread, rec_pc,
                   rec_local, app_ret, produced>>
    /\ UNCHANGED rec_rest

\* Thread.start() succeeds once: RuntimeError when the thread was started before
Startable(thread_state) == thread_state = "initial"

\* start_recording: super().start(); return True, or the RuntimeError
SrStart ==
    /\ app_pc = "sr_start"
    /\ IF Startable(rec_thread)
       THEN /\ rec_thread' = "started"
            /\ rec_pc' = "test"
            /\ app_pc' = "idle"
            /\ app_ret' = "True"
       ELSE /\ app_pc' = "sr_except"
            /\ UNCHANGED <<rec_thread, rec_pc, app_ret>>
    /\ UNCHANGED <<input_queue, num_frames_to_record, recorded_frames,
                   frames_recorded_count, rec_running, rec_event, rec_local,
                   produced>>
    /\ UNCHANGED rec_rest

\* start_recording, except RuntimeError: self._running = False
SrExceptRunning ==
    /\ app_pc = "sr_except"
    /\ rec_running' = FALSE
    /\ app_pc' = "sr_except_event"
    /\ UNCHANGED <<input_queue, num_frames_to_record, recorded_frames,
                   frames_recorded_count, rec_event, rec_thread, rec_pc,
                   rec_local, app_ret, produced>>
    /\ UNCHANGED rec_rest

\* start_recording, except RuntimeError: event.set(); return False
SrExceptEvent ==
    /\ app_pc = "sr_except_event"
    /\ rec_event' = TRUE
    /\ app_pc' = "idle"
    /\ app_ret' = "False"
    /\ UNCHANGED <<input_queue, num_frames_to_record, recorded_frames,
                   frames_recorded_count, rec_running, rec_thread, rec_pc,
                   rec_local, produced>>
    /\ UNCHANGED rec_rest

\* stop_recording(wait_for_thread_join, timeout): self._running = False, then
\* join(timeout) if asked to and the thread is alive
StopRecording ==
    /\ rec_thread # "none"
    /\ app_pc = "idle"
    /\ rec_running' = FALSE
    /\ \E wait_for_thread_join \in BOOLEAN :
         app_pc' = IF wait_for_thread_join /\ rec_thread = "started"
                   THEN "join" ELSE "idle"
    /\ app_ret' = "none"
    /\ UNCHANGED <<input_queue, num_frames_to_record, recorded_frames,
                   frames_recorded_count, rec_event, rec_thread, rec_pc,
                   rec_local, produced>>
    /\ UNCHANGED rec_rest

\* stop_recording: self.join(timeout) returns, the thread ended or the
\* timeout of 2 s ran out while the thread waits up to 5 s for a frame
JoinReturns ==
    /\ app_pc = "join"
    /\ rec_thread = "stopped" \/ rec_pc = "get"
    /\ app_pc' = "idle"
    /\ UNCHANGED <<input_queue, num_frames_to_record, recorded_frames,
                   frames_recorded_count, rec_running, rec_event, rec_thread,
                   rec_pc, rec_local, app_ret, produced>>
    /\ UNCHANGED rec_rest

\* wait_for_completion(): True at once when the thread is not alive and the
\* event is set, else event.wait(None)
WaitForCompletion ==
    /\ rec_thread # "none"
    /\ app_pc = "idle"
    /\ IF rec_thread # "started" /\ rec_event
       THEN app_ret' = "True" /\ app_pc' = app_pc
       ELSE app_ret' = "none" /\ app_pc' = "wait"
    /\ UNCHANGED <<input_queue, num_frames_to_record, recorded_frames,
                   frames_recorded_count, rec_running, rec_event, rec_thread,
                   rec_pc, rec_local, produced>>
    /\ UNCHANGED rec_rest

\* wait_for_completion: event.wait(None) returns True once the event is set
WaitReturns ==
    /\ app_pc = "wait"
    /\ rec_event
    /\ app_pc' = "idle"
    /\ app_ret' = "True"
    /\ UNCHANGED <<input_queue, num_frames_to_record, recorded_frames,
                   frames_recorded_count, rec_running, rec_event, rec_thread,
                   rec_pc, rec_local, produced>>
    /\ UNCHANGED rec_rest

\* run: while self._running and self._frames_recorded_count < self.num_frames_to_record
GoesOn(is_running, count, num) == is_running /\ count < num

\* run: the loop test
RunTest ==
    /\ rec_pc = "test"
    /\ rec_pc' = IF GoesOn(rec_running, frames_recorded_count, num_frames_to_record)
                 THEN "get" ELSE "finally"
    /\ UNCHANGED <<input_queue, num_frames_to_record, recorded_frames,
                   frames_recorded_count, rec_running, rec_event, rec_thread,
                   rec_local, app_pc, app_ret, produced>>
    /\ UNCHANGED rec_rest

\* run: frame = self.input_queue.get(timeout=5.0) returns a frame
RunGet ==
    /\ rec_pc = "get"
    /\ input_queue # <<>>
    /\ rec_local' = [rec_local EXCEPT !.frame = Head(input_queue)]
    /\ input_queue' = Tail(input_queue)
    /\ rec_pc' = "append"
    /\ UNCHANGED <<num_frames_to_record, recorded_frames, frames_recorded_count,
                   rec_running, rec_event, rec_thread, app_pc, app_ret, produced>>
    /\ UNCHANGED rec_rest

\* run: the get raises QueueEmpty after 5 s without a frame; it is raised
\* again, caught by except Exception, and the finally block follows
RunGetTimeout ==
    /\ rec_pc = "get"
    /\ input_queue = <<>>
    /\ rec_pc' = "finally"
    /\ UNCHANGED <<input_queue, num_frames_to_record, recorded_frames,
                   frames_recorded_count, rec_running, rec_event, rec_thread,
                   rec_local, app_pc, app_ret, produced>>
    /\ UNCHANGED rec_rest

\* run: self.recorded_frames.append(frame)
RunAppend ==
    /\ rec_pc = "append"
    /\ recorded_frames' = Append(recorded_frames, rec_local.frame)
    /\ rec_pc' = "load"
    /\ UNCHANGED <<input_queue, num_frames_to_record, frames_recorded_count,
                   rec_running, rec_event, rec_thread, rec_local, app_pc,
                   app_ret, produced>>
    /\ UNCHANGED rec_rest

\* run: self._frames_recorded_count += 1, the read
RunLoadCount ==
    /\ rec_pc = "load"
    /\ rec_local' = [rec_local EXCEPT !.count = frames_recorded_count]
    /\ rec_pc' = "store"
    /\ UNCHANGED <<input_queue, num_frames_to_record, recorded_frames,
                   frames_recorded_count, rec_running, rec_event, rec_thread,
                   app_pc, app_ret, produced>>
    /\ UNCHANGED rec_rest

\* run: self._frames_recorded_count += 1, the write
RunStoreCount ==
    /\ rec_pc = "store"
    /\ frames_recorded_count' = rec_local.count + 1
    /\ rec_pc' = "test"
    /\ UNCHANGED <<input_queue, num_frames_to_record, recorded_frames,
                   rec_running, rec_event, rec_thread, rec_local, app_pc,
                   app_ret, produced>>
    /\ UNCHANGED rec_rest

\* run, finally: self._running = False
RunFinallyRunning ==
    /\ rec_pc = "finally"
    /\ rec_running' = FALSE
    /\ rec_pc' = "finally_event"
    /\ UNCHANGED <<input_queue, num_frames_to_record, recorded_frames,
                   frames_recorded_count, rec_event, rec_thread, rec_local,
                   app_pc, app_ret, produced>>
    /\ UNCHANGED rec_rest

\* run, finally: self.recording_task_complete_event.set(); the thread ends
RunFinallyEvent ==
    /\ rec_pc = "finally_event"
    /\ rec_event' = TRUE
    /\ rec_pc' = "done"
    /\ rec_thread' = "stopped"
    /\ UNCHANGED <<input_queue, num_frames_to_record, recorded_frames,
                   frames_recorded_count, rec_running, rec_local, app_pc,
                   app_ret, produced>>
    /\ UNCHANGED rec_rest

\* the steps of the recording thread
RunThread ==
    \/ RunTest
    \/ RunGet
    \/ RunGetTimeout
    \/ RunAppend
    \/ RunLoadCount
    \/ RunStoreCount
    \/ RunFinallyRunning
    \/ RunFinallyEvent

\* the steps of the thread that uses the recorder
Application ==
    \/ Construct
    \/ StartRecording
    \/ SrResetFrames
    \/ SrResetCount
    \/ SrClearEvent
    \/ SrSetRunning
    \/ SrStart
    \/ SrExceptRunning
    \/ SrExceptEvent
    \/ StopRecording
    \/ JoinReturns
    \/ WaitForCompletion
    \/ WaitReturns

RecNext == Application \/ RunThread \/ Produce

\* no recorder constructed yet, nothing else going on
RecStart == OrchInit /\ radar_cfg.num_adc_samples = 2 /\ frame_period = 1

RecSpec == RecStart /\ [][RecNext]_vars

\* C28, its safety part: after start_recording the recorder stores the frames
\* in the order they are taken from the input queue and never stores more
\* than num_frames frames; when its thread has ended and no call is under
\* way, the completion event is set and the running flag is false.
C28_StoresAtMostNumFrames ==
    rec_thread # "none"
    => /\ Len(recorded_frames) <= num_frames_to_record
       /\ \A m, n \in 1..Len(recorded_frames) :
            m < n => recorded_frames[m] < recorded_frames[n]
       /\ (rec_thread = "stopped" /\ app_pc = "idle")
            => (rec_event /\ ~rec_running)

\* the steps of start_recording after its first test
SrSteps == {"sr_frames", "sr_count", "sr_clear", "sr_running", "sr_start",
            "sr_except", "sr_except_event"}

\* C38: a start_recording call that returns False, because the recorder is
\* running or because its thread was started before, leaves the recorder as
\* it was: the call that finds the recorder running changes neither the
\* recorded frames nor the count nor the completion event, and no step of a
\* call on a thread that was started before (it can only end in the
\* RuntimeError branch, which returns False) changes the recorded frames or
\* the count.
C38_RefusedStartKeepsState ==
    [][ /\ (app_pc = "idle" /\ app_pc' = "idle"
            /\ app_ret # "False" /\ app_ret' = "False")
           => /\ recorded_frames' = recorded_frames
              /\ frames_recorded_count' = frames_recorded_count
              /\ rec_event' = rec_event
        /\ (app_pc \in SrSteps /\ app_pc' # app_pc /\ ~Startable(rec_thread))
           => /\ recorded_frames' = recorded_frames
              /\ frames_recorded_count' = frames_recorded_count
      ]_vars

====
